---- MODULE Spec2Model ----
(***************************************************************************)
(* Formula translation engine of the dashboard backend:                    *)
(*   pxml/csv_processor.py     (CSVProcessor: schema, ROW mode)            *)
(*   pxml/formula_evaluator.py (FormulaEvaluator: COLUMN mode)             *)
(* Text is modelled as a sequence of one-character strings.                *)
(***************************************************************************)
EXTENDS Integers, Sequences, FiniteSets, TLC

VARIABLES
    headers,          \* CSVProcessor.headers: list of column names
    column_mapping,   \* CSVProcessor.column_mapping: ordered dict letter -> name
    reverse_mapping,  \* CSVProcessor.reverse_mapping: ordered dict name -> letter
    data,             \* CSVProcessor.data: None or [columns, rows]
    row,              \* the row a ROW-mode translation runs against
    input,            \* the text a translation step was called with
    formula,          \* the text as the running step has rewritten it so far
    args,             \* the list returned by _split_function_args
    num,              \* the number a helper function is still working on
    result,           \* the value a helper function has built or returned
    pc                \* position of the running call

vars == <<headers, column_mapping, reverse_mapping, data, row, input, formula, args, num, result, pc>>

(***************************************************************************)
(* Characters and text                                                     *)
(***************************************************************************)
Upper == <<"A","B","C","D","E","F","G","H","I","J","K","L","M",
           "N","O","P","Q","R","S","T","U","V","W","X","Y","Z">>

UpperSet == {Upper[i] : i \in 1..26}

LowerSet == {"a","b","c","d","e","f","g","h","i","j","k","l","m",
             "n","o","p","q","r","s","t","u","v","w","x","y","z"}

Digits == <<"0","1","2","3","4","5","6","7","8","9">>

DigitSet == {Digits[i] : i \in 1..10}

\* [a-zA-Z_]
IsNameStart(c) == c \in UpperSet \cup LowerSet \cup {"_"}

\* \w and [a-zA-Z0-9_]
IsWord(c) == c \in UpperSet \cup LowerSet \cup DigitSet \cup {"_"}

\* \s, and what str.strip() removes
IsSpace(c) == c = " "

\* None where a text is expected (no column name and no letter is empty)
None == <<>>

\* s[i:] of Python for a 1-based first position i
Tail_(s, i) == SubSeq(s, i, Len(s))

\* s.startswith(p)
StartsWith(s, p) == Len(p) <= Len(s) /\ SubSeq(s, 1, Len(p)) = p

\* p occurs in s at position i
OccursAt(s, p, i) == i >= 1 /\ i + Len(p) - 1 <= Len(s) /\ SubSeq(s, i, i + Len(p) - 1) = p

\* s.find(p): first position of p in s, 0 when p does not occur (Python's -1)
Find(s, p) ==
    LET hits == {i \in 1..Len(s) : OccursAt(s, p, i)}
    IN IF hits = {} THEN 0 ELSE CHOOSE i \in hits : \A j \in hits : i <= j

\* p in s
Contains(s, p) == Find(s, p) # 0

RECURSIVE LStrip(_)
LStrip(s) == IF s # <<>> /\ IsSpace(Head(s)) THEN LStrip(Tail(s)) ELSE s

RECURSIVE RStrip(_)
RStrip(s) == IF s # <<>> /\ IsSpace(s[Len(s)]) THEN RStrip(SubSeq(s, 1, Len(s) - 1)) ELSE s

\* str.strip()
Strip(s) == RStrip(LStrip(s))

\* sep.join(parts)
RECURSIVE Join(_, _)
Join(parts, sep) ==
    IF parts = <<>> THEN <<>>
    ELSE IF Len(parts) = 1 THEN parts[1]
    ELSE parts[1] \o sep \o Join(Tail(parts), sep)

\* s.replace(old, new) for a non-empty old: leftmost, non-overlapping
RECURSIVE Replace(_, _, _)
Replace(s, old, new) ==
    LET at == Find(s, old)
    IN IF at = 0 THEN s
       ELSE SubSeq(s, 1, at - 1) \o new \o Replace(Tail_(s, at + Len(old)), old, new)

\* str(n) for an integer n
RECURSIVE NatStr(_)
NatStr(n) == IF n < 10 THEN <<Digits[n + 1]>> ELSE NatStr(n \div 10) \o <<Digits[(n % 10) + 1]>>

IntStr(n) == IF n < 0 THEN <<"-">> \o NatStr(0 - n) ELSE NatStr(n)

DigitVal(c) == CHOOSE d \in 0..9 : Digits[d + 1] = c

\* int(s) for a non-empty text of digits
RECURSIVE StrInt(_)
StrInt(s) == IF s = <<>> THEN 0 ELSE 10 * StrInt(SubSeq(s, 1, Len(s) - 1)) + DigitVal(s[Len(s)])

(***************************************************************************)
(* Python dict: insertion-ordered list of [k, v] entries                   *)
(***************************************************************************)
DKeys(d) == {d[i].k : i \in 1..Len(d)}

DHas(d, k) == k \in DKeys(d)

\* d.get(k): None when k is absent
DGet(d, k) == IF DHas(d, k) THEN d[CHOOSE i \in 1..Len(d) : d[i].k = k].v ELSE None

\* d[k] = v: an existing key keeps its place, a new key is appended
DPut(d, k, v) ==
    IF DHas(d, k) THEN [i \in 1..Len(d) |-> IF d[i].k = k THEN [k |-> k, v |-> v] ELSE d[i]]
    ELSE Append(d, [k |-> k, v |-> v])

(***************************************************************************)
(* ColumnSchema: CSVProcessor's letter <-> name mappings                   *)
(***************************************************************************)
\* _number_to_letter: the loop body runs while num >= 0
RECURSIVE NumberToLetterLoop(_, _)
NumberToLetterLoop(number, letters) ==
    IF number < 0 THEN letters
    ELSE NumberToLetterLoop((number \div 26) - 1, <<Upper[(number % 26) + 1]>> \o letters)

number_to_letter(number) == NumberToLetterLoop(number, <<>>)

\* _create_column_mappings: both dicts rebuilt from self.headers
RECURSIVE CreateMappings(_, _, _, _)
CreateMappings(hs, idx, cm, rm) ==
    IF idx >= Len(hs) THEN <<cm, rm>>
    ELSE LET letter == number_to_letter(idx)
         IN CreateMappings(hs, idx + 1, DPut(cm, letter, hs[idx + 1]), DPut(rm, hs[idx + 1], letter))

create_column_mappings(hs) == CreateMappings(hs, 0, <<>>, <<>>)

\* A registration that takes the letter after the next one
add_column_to_mappings_skipping(hs, cm, rm, column_name) ==
    LET next_index == Len(hs) + 1
        letter == number_to_letter(next_index)
    IN <<Append(hs, column_name), DPut(cm, letter, column_name), DPut(rm, column_name, letter)>>

\* _add_column_to_mappings: <<headers, column_mapping, reverse_mapping>> afterwards
add_column_to_mappings(hs, cm, rm, column_name) ==
    LET next_index == Len(hs)
        letter == number_to_letter(next_index)
    IN <<Append(hs, column_name), DPut(cm, letter, column_name), DPut(rm, column_name, letter)>>

\* get_column_by_letter / get_letter_by_column
get_column_by_letter(cm, letter) == DGet(cm, letter)

get_letter_by_column(rm, name) == DGet(rm, name)

(***************************************************************************)
(* Tables and cell values                                                  *)
(***************************************************************************)
\* A cell value: an integer, a str or NaN
Num(n) == [t |-> "num", n |-> n, s |-> <<>>]

Str(s) == [t |-> "str", n |-> 0, s |-> s]

NaN == [t |-> "nan", n |-> 0, s |-> <<>>]

\* pd.isna(value)
IsNa(value) == value.t = "nan"

\* A DataFrame: its column labels in order, and its rows as maps label -> value
Frame(columns, rows) == [loaded |-> TRUE, columns |-> columns, rows |-> rows]

\* self.data = NoData
NoData == [loaded |-> FALSE, columns |-> <<>>, rows |-> <<>>]

ColumnSet(df) == {df.columns[i] : i \in 1..Len(df.columns)}

\* self.data[column_name] = series: an existing label is overwritten in place
SetColumn(df, column_name, series) ==
    Frame(IF column_name \in ColumnSet(df) THEN df.columns ELSE Append(df.columns, column_name),
          [i \in 1..Len(df.rows) |->
              [c \in ColumnSet(df) \cup {column_name} |->
                  IF c = column_name THEN series[i] ELSE df.rows[i][c]]])

N_age == <<"a","g","e">>

N_sales == <<"s","a","l","e","s">>

N_region == <<"r","e","g","i","o","n">>

N_Q1 == <<"Q","1">>

V_east == <<"e","a","s","t">>

V_west == <<"w","e","s","t">>

V_B2 == <<"B","2">>

\* The CSV files a run may load (pandas gives every column a distinct label)
Tables ==
    { Frame(<<N_age>>, << [c \in {N_age} |-> Num(5)], [c \in {N_age} |-> Num(7)] >>),
      Frame(<<N_age>>, << [c \in {N_age} |-> NaN] >>),
      Frame(<<N_region, N_sales>>,
            << (N_region :> Str(V_east)) @@ (N_sales :> Num(100)),
               (N_region :> Str(V_west)) @@ (N_sales :> Num(200)) >>),
      Frame(<<N_Q1>>, << [c \in {N_Q1} |-> Str(V_B2)] >>) }

\* Names a transformation may give its derived column
DerivedNames == {N_age, N_sales, <<"t","o","t","a","l">>}

\* Values a derived column's formula may evaluate to on a row
DerivedValues == {Num(1), Str(V_east), NaN}

\* Largest number of registered columns explored
MaxColumns == 4

(***************************************************************************)
(* Spec: loading a table and applying transformations                      *)
(***************************************************************************)
Init ==
    /\ headers = <<>>
    /\ column_mapping = <<>>
    /\ reverse_mapping = <<>>
    /\ data = NoData
    /\ row = <<>>
    /\ input = <<>>
    /\ formula = <<>>
    /\ args = <<>>
    /\ num = 0
    /\ result = <<>>
    /\ pc = "idle"

\* load_csv / load_csv_from_string
LoadCsv(t) ==
    /\ pc = "idle"
    /\ data' = t
    /\ headers' = t.columns
    /\ column_mapping' = create_column_mappings(t.columns)[1]
    /\ reverse_mapping' = create_column_mappings(t.columns)[2]
    /\ UNCHANGED <<row, input, formula, args, pc, num, result>>

\* One pass of the loop of apply_transformations. raised: _evaluate_formula
\* raised, the except clause swallowed it and nothing was assigned.
ApplyTransformation(column_name, value, raised) ==
    /\ pc = "idle"
    /\ data # NoData
    /\ Len(headers) < MaxColumns
    /\ IF raised
       THEN UNCHANGED <<headers, column_mapping, reverse_mapping, data>>
       ELSE LET m == add_column_to_mappings(headers, column_mapping, reverse_mapping, column_name)
            IN /\ data' = SetColumn(data, column_name, [i \in 1..Len(data.rows) |-> value])
               /\ headers' = m[1]
               /\ column_mapping' = m[2]
               /\ reverse_mapping' = m[3]
    /\ UNCHANGED <<row, input, formula, args, pc, num, result>>

Next ==
    \/ \E t \in Tables : LoadCsv(t)
    \/ \E n \in DerivedNames, v \in DerivedValues, r \in BOOLEAN : ApplyTransformation(n, v, r)

Spec == Init /\ [][Next]_vars

(***************************************************************************)
(* C1: the letter-to-name map and the name-to-letter map are mutually      *)
(* inverse in every state reached by loading a table and registering       *)
(* derived columns, whatever their names.                                  *)
(***************************************************************************)
C1_MappingBijection ==
    /\ \A L \in DKeys(column_mapping) :
          get_letter_by_column(reverse_mapping, get_column_by_letter(column_mapping, L)) = L
    /\ \A N \in DKeys(reverse_mapping) :
          get_column_by_letter(column_mapping, get_letter_by_column(reverse_mapping, N)) = N

(***************************************************************************)
(* ArgumentSplitter: CSVProcessor._split_function_args                      *)
(***************************************************************************)
NoQuote == ""

\* char in ['"', "'"]
IsQuoteChar_DoubleOnly(c) == c = "\""

IsQuoteChar(c) == c \in {"\"", "'"}

\* The for loop over args_str from position i on, then the trailing append.
\* st = [args, current_arg, paren_count, quote_char]
RECURSIVE SplitLoop(_, _, _)
SplitLoop(s, i, st) ==
    IF i > Len(s)
    THEN IF st.current_arg # <<>> THEN Append(st.args, st.current_arg) ELSE st.args
    ELSE LET char == s[i]
             kept == st.current_arg \o <<char>>
         IN SplitLoop(s, i + 1,
              IF st.quote_char # NoQuote
              THEN [st EXCEPT !.current_arg = kept,
                              !.quote_char = IF char = st.quote_char THEN NoQuote ELSE @]
              ELSE IF IsQuoteChar(char)
              THEN [st EXCEPT !.current_arg = kept, !.quote_char = char]
              ELSE IF char = "("
              THEN [st EXCEPT !.current_arg = kept, !.paren_count = @ + 1]
              ELSE IF char = ")"
              THEN [st EXCEPT !.current_arg = kept, !.paren_count = @ - 1]
              ELSE IF char = "," /\ st.paren_count = 0
              THEN [st EXCEPT !.args = Append(@, st.current_arg), !.current_arg = <<>>]
              ELSE [st EXCEPT !.current_arg = kept])

\* A splitter that trims the arguments it returns
split_function_args_trimmed(args_str) ==
    LET a == SplitLoop(args_str, 1, [args |-> <<>>, current_arg |-> <<>>, paren_count |-> 0, quote_char |-> NoQuote])
    IN [i \in 1..Len(a) |-> Strip(a[i])]

split_function_args(args_str) ==
    SplitLoop(args_str, 1, [args |-> <<>>, current_arg |-> <<>>, paren_count |-> 0, quote_char |-> NoQuote])

\* All texts over an alphabet, up to a length
Texts(alphabet, n) == UNION {[1..k -> alphabet] : k \in 0..n}

SplitAlphabet == {"a", ",", "(", ")", "'", "\""}

\* Longest argument list enumerated character by character
MaxSplitLen == 5

\* The two worked examples of the specification
SplitExample1 == <<"a",",","\"","b",",","c","\"",",","d">>

SplitExample2 == <<"f","(","1",",","2",")",",","3">>

\* Arguments with blanks around them
SplitExample3 == <<" ","a"," ",","," ","b"," ">>

SplitInputs == Texts(SplitAlphabet, MaxSplitLen) \cup {SplitExample1, SplitExample2, SplitExample3}

\* SpecSplit: one call of the splitter on an argument list
InitSplit ==
    /\ headers = <<>>
    /\ column_mapping = <<>>
    /\ reverse_mapping = <<>>
    /\ data = NoData
    /\ row = <<>>
    /\ input \in SplitInputs
    /\ formula = input
    /\ args = <<>>
    /\ num = 0
    /\ result = <<>>
    /\ pc = "split"

CallSplit ==
    /\ pc = "split"
    /\ args' = split_function_args(input)
    /\ pc' = "done"
    /\ UNCHANGED <<headers, column_mapping, reverse_mapping, data, row, input, formula, num, result>>

NextSplit == CallSplit

SpecSplit == InitSplit /\ [][NextSplit]_vars

\* The quote that is open after the first i characters of s ("" for none):
\* a quote character opens a literal, the next occurrence of the same
\* character closes it.
RECURSIVE OpenQuote(_, _)
OpenQuote(s, i) ==
    IF i = 0 THEN ""
    ELSE LET before == OpenQuote(s, i - 1)
         IN IF before = "" THEN (IF s[i] \in {"\"", "'"} THEN s[i] ELSE "")
            ELSE IF s[i] = before THEN "" ELSE before

\* Position i of s lies outside every quoted literal (and is no delimiter)
Unquoted(s, i) == OpenQuote(s, i - 1) = "" /\ OpenQuote(s, i) = ""

\* Parenthesis nesting depth in front of position i, literals not counted
DepthBefore(s, i) ==
    Cardinality({j \in 1..(i - 1) : s[j] = "(" /\ Unquoted(s, j)})
      - Cardinality({j \in 1..(i - 1) : s[j] = ")" /\ Unquoted(s, j)})

\* The commas of s at depth 0 outside quoted literals
SplittingCommas(s) == {i \in 1..Len(s) : s[i] = "," /\ Unquoted(s, i) /\ DepthBefore(s, i) = 0}

\* The k-th piece of s when cut at the positions of the set cuts
Piece(s, cuts, k) ==
    LET lo == IF k = 1 THEN 0
              ELSE CHOOSE c \in cuts : Cardinality({d \in cuts : d < c}) = k - 2
        hi == IF k = Cardinality(cuts) + 1 THEN Len(s) + 1
              ELSE CHOOSE c \in cuts : Cardinality({d \in cuts : d < c}) = k - 1
    IN SubSeq(s, lo + 1, hi - 1)

Pieces(s, cuts) == [k \in 1..(Cardinality(cuts) + 1) |-> Piece(s, cuts, k)]

\* C2: the splitter returns, in order, the pieces of its input between the
\* commas that are at parenthesis depth 0 and outside every quoted literal,
\* and cuts nowhere else (an empty piece after the last such comma is not
\* returned).
C2_SplitAtTopLevelCommas ==
    pc = "done" =>
        LET all == Pieces(input, SplittingCommas(input))
        IN args = IF all[Len(all)] = <<>> THEN SubSeq(all, 1, Len(all) - 1) ELSE all

C2_Witness ==
    /\ pc = "done"
    /\ input = SplitExample1
    /\ args = << <<"a">>, <<"\"","b",",","c","\"">>, <<"d">> >>

(***************************************************************************)
(* StatementConverters: _convert_if_statements, _convert_and_statements,   *)
(* _convert_or_statements                                                  *)
(***************************************************************************)
\* The inner while loop that looks for the closing parenthesis, from position
\* i on with the running paren_count; 0 when the loop runs off the end of the
\* text (the while's else branch)
FindClose_FirstClosing(f, i, paren_count) ==
    LET closes == {e \in i..Len(f) : f[e] = ")"}
    IN IF closes = {} THEN 0 ELSE CHOOSE e \in closes : \A d \in closes : e <= d

RECURSIVE FindClose(_, _, _)
FindClose(f, i, paren_count) ==
    IF i > Len(f) THEN 0
    ELSE IF f[i] = "(" THEN FindClose(f, i + 1, paren_count + 1)
    ELSE IF f[i] = ")"
         THEN IF paren_count - 1 = 0 THEN i ELSE FindClose(f, i + 1, paren_count - 1)
    ELSE FindClose(f, i + 1, paren_count)

\* The outcome of one pass of a converter's outer loop
Rewritten(f) == [formula |-> f, again |-> TRUE]

Stopped(f) == [formula |-> f, again |-> FALSE]

\* f"({true_value.strip()} if {condition.strip()} else {false_value.strip()})"
if_replacement_swapped(a) ==
    <<"(">> \o Strip(a[3]) \o <<" ","i","f"," ">> \o Strip(a[1]) \o <<" ","e","l","s","e"," ">> \o Strip(a[2]) \o <<")">>

if_replacement(a) ==
    <<"(">> \o Strip(a[2]) \o <<" ","i","f"," ">> \o Strip(a[1]) \o <<" ","e","l","s","e"," ">> \o Strip(a[3]) \o <<")">>

\* A converter without the loop: it returns after its first rewrite
if_iteration_once(f) ==
    LET start == Find(f, <<"I","F","(">>)
    IN IF start = 0 THEN Stopped(f)
       ELSE LET end == FindClose(f, start + 2, 0)
            IN IF end = 0 THEN Stopped(f)
               ELSE LET a == split_function_args(SubSeq(f, start + 3, end - 1))
                    IN IF Len(a) = 3
                       THEN Stopped(SubSeq(f, 1, start - 1) \o if_replacement(a) \o Tail_(f, end + 1))
                       ELSE Stopped(f)

\* A pass that does not leave the loop at an IF( whose argument count is not 3
if_iteration_retrying(f) ==
    LET start == Find(f, <<"I","F","(">>)
    IN IF start = 0 THEN Stopped(f)
       ELSE LET end == FindClose(f, start + 2, 0)
            IN IF end = 0 THEN Stopped(f)
               ELSE LET a == split_function_args(SubSeq(f, start + 3, end - 1))
                    IN IF Len(a) = 3
                       THEN Rewritten(SubSeq(f, 1, start - 1) \o if_replacement(a) \o Tail_(f, end + 1))
                       ELSE Rewritten(f)

\* A pass that cuts an IF( whose argument count is not 3 out of the text
if_iteration_dropping(f) ==
    LET start == Find(f, <<"I","F","(">>)
    IN IF start = 0 THEN Stopped(f)
       ELSE LET end == FindClose(f, start + 2, 0)
            IN IF end = 0 THEN Stopped(f)
               ELSE LET a == split_function_args(SubSeq(f, start + 3, end - 1))
                    IN IF Len(a) = 3
                       THEN Rewritten(SubSeq(f, 1, start - 1) \o if_replacement(a) \o Tail_(f, end + 1))
                       ELSE Stopped(SubSeq(f, 1, start - 1) \o Tail_(f, end + 1))

\* One pass of the while loop of _convert_if_statements
if_iteration(f) ==
    LET start == Find(f, <<"I","F","(">>)
    IN IF start = 0 THEN Stopped(f)
       ELSE LET end == FindClose(f, start + 2, 0)
            IN IF end = 0 THEN Stopped(f)
               ELSE LET a == split_function_args(SubSeq(f, start + 3, end - 1))
                    IN IF Len(a) = 3
                       THEN Rewritten(SubSeq(f, 1, start - 1) \o if_replacement(a) \o Tail_(f, end + 1))
                       ELSE Stopped(f)

\* " and ".join(arg.strip() for arg in args), in parentheses
and_replacement_untrimmed(a) == <<"(">> \o Join(a, <<" ","a","n","d"," ">>) \o <<")">>

and_replacement(a) == <<"(">> \o Join([i \in 1..Len(a) |-> Strip(a[i])], <<" ","a","n","d"," ">>) \o <<")">>

\* One pass of the while loop of _convert_and_statements
and_iteration(f) ==
    LET start == Find(f, <<"A","N","D","(">>)
    IN IF start = 0 THEN Stopped(f)
       ELSE LET end == FindClose(f, start + 3, 0)
            IN IF end = 0 THEN Stopped(f)
               ELSE LET a == split_function_args(SubSeq(f, start + 4, end - 1))
                    IN IF Len(a) >= 2
                       THEN Rewritten(SubSeq(f, 1, start - 1) \o and_replacement(a) \o Tail_(f, end + 1))
                       ELSE Stopped(f)

\* " or ".join(arg.strip() for arg in args), in parentheses
or_replacement(a) == <<"(">> \o Join([i \in 1..Len(a) |-> Strip(a[i])], <<" ","o","r"," ">>) \o <<")">>

\* One pass of the while loop of _convert_or_statements
or_iteration(f) ==
    LET start == Find(f, <<"O","R","(">>)
    IN IF start = 0 THEN Stopped(f)
       ELSE LET end == FindClose(f, start + 2, 0)
            IN IF end = 0 THEN Stopped(f)
               ELSE LET a == split_function_args(SubSeq(f, start + 3, end - 1))
                    IN IF Len(a) >= 2
                       THEN Rewritten(SubSeq(f, 1, start - 1) \o or_replacement(a) \o Tail_(f, end + 1))
                       ELSE Stopped(f)

\* The converters as functions text -> text: the loop run to its exit
RECURSIVE convert_if_statements(_)
convert_if_statements(f) ==
    LET r == if_iteration(f) IN IF r.again THEN convert_if_statements(r.formula) ELSE r.formula

RECURSIVE convert_and_statements(_)
convert_and_statements(f) ==
    LET r == and_iteration(f) IN IF r.again THEN convert_and_statements(r.formula) ELSE r.formula

RECURSIVE convert_or_statements(_)
convert_or_statements(f) ==
    LET r == or_iteration(f) IN IF r.again THEN convert_or_statements(r.formula) ELSE r.formula

(***************************************************************************)
(* Inputs of the converters                                                *)
(***************************************************************************)
\* Concatenations of up to n pieces taken from a set of pieces
RECURSIVE Concats(_, _)
Concats(pieces, n) ==
    IF n = 0 THEN {<<>>}
    ELSE LET shorter == Concats(pieces, n - 1)
         IN shorter \cup {t \o p : t \in shorter, p \in pieces}

\* Pieces of free text around a keyword kw: calls cut short, stray commas,
\* parentheses and quotes
Pieces_(kw) == {kw \o <<"(">>, <<"c",",","a",",">>, <<"a",",">>, <<" ","b">>, <<")">>, <<"'">>, <<"(">>}

\* Most pieces in a free text
MaxPieces == 4

\* Arguments that hold no call: a comparison, and a literal that holds a
\* comma and has blanks around it
Atoms == {<<"A",">","1">>, <<" ","'","x",",","y","'"," ">>}

\* Three-argument calls of kw nested in one another, n calls in all, in every
\* argument position
RECURSIVE Nested(_, _)
Nested(kw, n) ==
    IF n = 0 THEN Atoms
    ELSE UNION { UNION { { kw \o <<"(">> \o a \o <<",">> \o b \o <<",">> \o c \o <<")">> :
                             a \in Nested(kw, i), b \in Nested(kw, j), c \in Nested(kw, n - 1 - i - j) } :
                         j \in 0..(n - 1 - i) } : i \in 0..(n - 1) }

\* Most calls in a nested formula
MaxCalls == 2

NestedUpTo(kw, n) == UNION {Nested(kw, k) : k \in 0..n}

\* A call with text in front of it and behind it
Embedded(kw) == {<<"x","+">> \o e \o <<"*","2">> : e \in Nested(kw, 1)}

IfExample1 == <<"I","F","(","A",">","1",",","\"","y","e","s","\"",",","\"","n","o","\"",")">>

IfExample2 == <<"I","F","(","A",">","1",",","I","F","(","B",">","2",",","\"","x","\"",",","\"","y","\"",")",",","\"","z","\"",")">>

\* A one-argument IF in front of a three-argument IF
IfExample3 == <<"I","F","(","a",")","+","I","F","(","c",",","a",",","b",")">>

IfInputs ==
    Concats(Pieces_(<<"I","F">>), MaxPieces) \cup NestedUpTo(<<"I","F">>, MaxCalls) \cup Embedded(<<"I","F">>)
        \cup {IfExample1, IfExample2, IfExample3}

(***************************************************************************)
(* SpecIf: one call of _convert_if_statements, a pass of its loop per step *)
(***************************************************************************)
InitIf ==
    /\ headers = <<>>
    /\ column_mapping = <<>>
    /\ reverse_mapping = <<>>
    /\ data = NoData
    /\ row = <<>>
    /\ input \in IfInputs
    /\ formula = input
    /\ args = <<>>
    /\ num = 0
    /\ result = <<>>
    /\ pc = "if"

\* A pass that rewrites the leftmost IF( and goes round again
IfRewrite ==
    /\ pc = "if"
    /\ if_iteration(formula).again
    /\ formula' = if_iteration(formula).formula
    /\ UNCHANGED <<headers, column_mapping, reverse_mapping, data, row, input, args, pc, num, result>>

\* The pass that leaves the loop: no IF( left, or a break; the text is returned
IfReturn ==
    /\ pc = "if"
    /\ ~if_iteration(formula).again
    /\ formula' = if_iteration(formula).formula
    /\ pc' = "done"
    /\ UNCHANGED <<headers, column_mapping, reverse_mapping, data, row, input, args, num, result>>

NextIf == IfRewrite \/ IfReturn

SpecIf == InitIf /\ [][NextIf]_vars

(***************************************************************************)
(* What a call is, read off the text alone                                 *)
(***************************************************************************)
\* Positions of f where the keyword kw followed by ( begins
Occurrences(f, kw) == {i \in 1..Len(f) : OccursAt(f, kw \o <<"(">>, i)}

Leftmost(f, kw) == CHOOSE i \in Occurrences(f, kw) : \A j \in Occurrences(f, kw) : i <= j

\* Number of c's among f[lo..hi]
Count(f, c, lo, hi) == Cardinality({j \in lo..hi : f[j] = c})

\* The parenthesis matching the one opened at position open: the first place
\* behind it where as many have been closed as opened, the depth counted from
\* 1 at the opening one. 0 when there is none.
MatchingClose(f, open) ==
    LET closes == {e \in (open + 1)..Len(f) :
                      f[e] = ")" /\ Count(f, "(", open, e) = Count(f, ")", open, e)}
    IN IF closes = {} THEN 0 ELSE CHOOSE e \in closes : \A d \in closes : e <= d

\* The top-level arguments of an argument list (C2)
TopLevelArgs(s) ==
    LET all == Pieces(s, SplittingCommas(s))
    IN IF all[Len(all)] = <<>> THEN SubSeq(all, 1, Len(all) - 1) ELSE all

\* s without its leading and trailing blanks
Trimmed(s) ==
    LET solid == {i \in 1..Len(s) : s[i] # " "}
    IN IF solid = {} THEN <<>>
       ELSE SubSeq(s, CHOOSE i \in solid : \A j \in solid : i <= j,
                      CHOOSE i \in solid : \A j \in solid : i >= j)

\* The call of kw at position i of f: its closing parenthesis and arguments
CallAt(f, kw, i) ==
    LET open == i + Len(kw)
        close == MatchingClose(f, open)
    IN [close |-> close,
        args |-> IF close = 0 THEN <<>> ELSE TopLevelArgs(SubSeq(f, open + 1, close - 1))]

(***************************************************************************)
(* C3: when the leftmost IF( has a matching closing parenthesis and its     *)
(* content splits into exactly three arguments, a pass of the IF converter *)
(* replaces exactly the span IF(...) by (true_value if condition else      *)
(* false_value), the arguments trimmed, and keeps the text in front of the *)
(* span and behind it.                                                     *)
(***************************************************************************)
C3_IfSpanReplaced ==
    [][ (pc = "if" /\ Occurrences(formula, <<"I","F">>) # {})
          => LET i == Leftmost(formula, <<"I","F">>)
                 call == CallAt(formula, <<"I","F">>, i)
             IN (call.close # 0 /\ Len(call.args) = 3)
                  => formula' = SubSeq(formula, 1, i - 1)
                                  \o <<"(">> \o Trimmed(call.args[2]) \o <<" ","i","f"," ">> \o Trimmed(call.args[1])
                                  \o <<" ","e","l","s","e"," ">> \o Trimmed(call.args[3]) \o <<")">>
                                  \o SubSeq(formula, call.close + 1, Len(formula)) ]_vars

C3_Witness ==
    /\ pc = "done"
    /\ input = <<"x","+","I","F","(","A",">","1",","," ","'","x",",","y","'"," ",",","A",">","1",")","*","2">>
    /\ formula = <<"x","+","(","'","x",",","y","'"," ","i","f"," ","A",">","1"," ","e","l","s","e"," ","A",">","1",")","*","2">>

(***************************************************************************)
(* C4: when every IF call of a formula has balanced parentheses and        *)
(* exactly three arguments, at any nesting depth and in any argument       *)
(* position, the IF converter returns a text without IF(.                  *)
(***************************************************************************)
\* An IF( that is a call of IF, not the tail of a longer name
IsCallOf(f, kw, i) == i = 1 \/ ~IsWord(f[i - 1])

EveryIfCallWellFormed(f) ==
    \A i \in Occurrences(f, <<"I","F">>) :
        /\ IsCallOf(f, <<"I","F">>, i)
        /\ CallAt(f, <<"I","F">>, i).close # 0
        /\ Len(CallAt(f, <<"I","F">>, i).args) = 3

C4_NestedIfsAllConverted ==
    (pc = "done" /\ EveryIfCallWellFormed(input)) => Occurrences(formula, <<"I","F">>) = {}

C4_Witness ==
    /\ pc = "done"
    /\ input = IfExample2
    /\ EveryIfCallWellFormed(input)
    /\ formula = <<"(","(","\"","x","\""," ","i","f"," ","B",">","2"," ","e","l","s","e"," ","\"","y","\"",")"," ","i","f"," ","A",">","1"," ","e","l","s","e"," ","\"","z","\"",")">>

(***************************************************************************)
(* SpecAndOr: one call of _convert_and_statements or of                    *)
(* _convert_or_statements, a pass of its loop per step                     *)
(***************************************************************************)
AndExample == <<"A","N","D","(","A",">","1",",","B","<","2",")">>

OrExample == <<"O","R","(","A",">","1",",","B","<","2",")">>

AndInputs ==
    Concats(Pieces_(<<"A","N","D">>), MaxPieces) \cup NestedUpTo(<<"A","N","D">>, MaxCalls) \cup Embedded(<<"A","N","D">>)
        \cup {AndExample}

OrInputs ==
    Concats(Pieces_(<<"O","R">>), MaxPieces) \cup NestedUpTo(<<"O","R">>, MaxCalls) \cup Embedded(<<"O","R">>)
        \cup {OrExample}

InitAndOr ==
    /\ headers = <<>>
    /\ column_mapping = <<>>
    /\ reverse_mapping = <<>>
    /\ data = NoData
    /\ row = <<>>
    /\ \/ pc = "and" /\ input \in AndInputs
       \/ pc = "or" /\ input \in OrInputs
    /\ formula = input
    /\ args = <<>>
    /\ num = 0
    /\ result = <<>>

AndRewrite ==
    /\ pc = "and"
    /\ and_iteration(formula).again
    /\ formula' = and_iteration(formula).formula
    /\ UNCHANGED <<headers, column_mapping, reverse_mapping, data, row, input, args, pc, num, result>>

AndReturn ==
    /\ pc = "and"
    /\ ~and_iteration(formula).again
    /\ formula' = and_iteration(formula).formula
    /\ pc' = "and_done"
    /\ UNCHANGED <<headers, column_mapping, reverse_mapping, data, row, input, args, num, result>>

OrRewrite ==
    /\ pc = "or"
    /\ or_iteration(formula).again
    /\ formula' = or_iteration(formula).formula
    /\ UNCHANGED <<headers, column_mapping, reverse_mapping, data, row, input, args, pc, num, result>>

OrReturn ==
    /\ pc = "or"
    /\ ~or_iteration(formula).again
    /\ formula' = or_iteration(formula).formula
    /\ pc' = "or_done"
    /\ UNCHANGED <<headers, column_mapping, reverse_mapping, data, row, input, args, num, result>>

NextAndOr == AndRewrite \/ AndReturn \/ OrRewrite \/ OrReturn

SpecAndOr == InitAndOr /\ [][NextAndOr]_vars

\* The trimmed arguments joined by a word, in one pair of parentheses
JoinedBy(a, word) ==
    <<"(">> \o Join([k \in 1..Len(a) |-> Trimmed(a[k])], <<" ">> \o word \o <<" ">>) \o <<")">>

\* A pass of the converter of kw on f gives g: the leftmost call of kw, when
\* it has at least two arguments, is replaced by its arguments joined by word
CallJoined(f, g, kw, word) ==
    Occurrences(f, kw) # {}
      => LET i == Leftmost(f, kw)
             call == CallAt(f, kw, i)
         IN (call.close # 0 /\ Len(call.args) >= 2)
              => g = SubSeq(f, 1, i - 1) \o JoinedBy(call.args, word)
                       \o SubSeq(f, call.close + 1, Len(f))

\* The call of kw in f (the leftmost one) has fewer than two arguments
FewerThanTwo(f, kw) ==
    /\ Occurrences(f, kw) # {}
    /\ CallAt(f, kw, Leftmost(f, kw)).close # 0
    /\ Len(CallAt(f, kw, Leftmost(f, kw)).args) < 2

(***************************************************************************)
(* C5: the AND converter (the OR converter) replaces a call AND(...)       *)
(* (OR(...)) of at least two arguments by its trimmed arguments joined     *)
(* with ' and ' (' or ') in one pair of parentheses; when the call has     *)
(* fewer than two arguments the converter returns its input unchanged.     *)
(***************************************************************************)
C5_AndOrJoined ==
    [][ /\ pc = "and" => CallJoined(formula, formula', <<"A","N","D">>, <<"a","n","d">>)
        /\ pc = "or" => CallJoined(formula, formula', <<"O","R">>, <<"o","r">>)
        /\ (pc' = "and_done" /\ FewerThanTwo(input, <<"A","N","D">>)) => formula' = input
        /\ (pc' = "or_done" /\ FewerThanTwo(input, <<"O","R">>)) => formula' = input ]_vars

C5_Witness ==
    /\ pc = "and_done"
    /\ input = AndExample
    /\ formula = <<"(","A",">","1"," ","a","n","d"," ","B","<","2",")">>

(***************************************************************************)
(* Regular-expression building blocks (re.sub: leftmost match first,       *)
(* matches do not overlap, the text put in is not scanned again)           *)
(***************************************************************************)
WordSet == UpperSet \cup LowerSet \cup DigitSet \cup {"_"}

SpaceSet == {" "}

\* End of the longest run of characters of S that starts at p: X+ and X*
RECURSIVE SpanWhile(_, _, _)
SpanWhile(f, p, S) == IF p <= Len(f) /\ f[p] \in S THEN SpanWhile(f, p + 1, S) ELSE p

\* End of the longest run of characters outside S that starts at p: [^...]*
RECURSIVE SpanUntil(_, _, _)
SpanUntil(f, p, S) == IF p <= Len(f) /\ f[p] \notin S THEN SpanUntil(f, p + 1, S) ELSE p

\* The character at position p, "" behind the end of the text
At(f, p) == IF p >= 1 /\ p <= Len(f) THEN f[p] ELSE ""

\* A match: the text f[from..next-1] and what replaces it
Match(next, repl) == [ok |-> TRUE, next |-> next, repl |-> repl]

NoMatch == [ok |-> FALSE, next |-> 0, repl |-> <<>>]

(***************************************************************************)
(* ROW mode: CSVProcessor._convert_comparison_operators                     *)
(***************************************************************************)
\* (?<![=!<>])=(?!=) at position p
SingleEqualsAt(f, p) ==
    /\ f[p] = "="
    /\ At(f, p - 1) \notin {"=", "!", "<", ">"}
    /\ At(f, p + 1) # "="

\* re.sub(r"(?<![=!<>])=(?!=)", "==", formula)
RECURSIVE SubSingleEquals(_, _)
SubSingleEquals(f, p) ==
    IF p > Len(f) THEN <<>>
    ELSE (IF SingleEqualsAt(f, p) THEN <<"=","=">> ELSE <<f[p]>>) \o SubSingleEquals(f, p + 1)

convert_comparison_operators(f) == Replace(SubSingleEquals(f, 1), <<"<",">">>, <<"!","=">>)

(***************************************************************************)
(* COLUMN mode: FormulaEvaluator._replace_excel_operators                   *)
(***************************************************************************)
\* (getColumnData\([^)]+\))\s*=\s*(\d+) at position p, replace_data_comparison
DataComparisonAt(f, p) ==
    IF ~OccursAt(f, <<"g","e","t","C","o","l","u","m","n","D","a","t","a","(">>, p) THEN NoMatch
    ELSE LET q == p + 14
             c == SpanUntil(f, q, {")"})
             s1 == SpanWhile(f, c + 1, SpaceSet)
             s2 == SpanWhile(f, s1 + 1, SpaceSet)
             d == SpanWhile(f, s2, DigitSet)
         IN IF c > q /\ c <= Len(f) /\ At(f, s1) = "=" /\ d > s2
            THEN Match(d, SubSeq(f, p, c) \o <<".","m","a","p","(","v","a","l"," ","=",">"," ","v","a","l"," ","=","="," ">> \o SubSeq(f, s2, d - 1) \o <<")">>)
            ELSE NoMatch

RECURSIVE SubDataComparison(_, _)
SubDataComparison(f, p) ==
    LET hits == {q \in p..Len(f) : DataComparisonAt(f, q).ok}
    IN IF hits = {} THEN Tail_(f, p)
       ELSE LET q == CHOOSE q \in hits : \A h \in hits : q <= h
                m == DataComparisonAt(f, q)
            IN SubSeq(f, p, q - 1) \o m.repl \o SubDataComparison(f, m.next)

\* (\w+(?:\([^)]*\))?)\s*=\s*([^,)]+) at position p, replace_comparison;
\* expression is the text the substitution runs over
ComparisonAt(expression, p) ==
    LET f == expression
        w == SpanWhile(f, p, WordSet)
        c == SpanUntil(f, w + 1, {")"})
        \* end of group 1: the optional (...) is taken when it is there
        g == IF At(f, w) = "(" THEN (IF c <= Len(f) THEN c + 1 ELSE 0) ELSE w
        s1 == SpanWhile(f, g, SpaceSet)
        s2 == SpanWhile(f, s1 + 1, SpaceSet)
        r == SpanUntil(f, s2, {",", ")"})
        \* \s* gives back its last blank when [^,)]+ finds nothing behind it
        from == IF r > s2 THEN s2 ELSE s2 - 1
        to == IF r > s2 THEN r ELSE s2
        left_side == SubSeq(f, p, g - 1)
        right_side == SubSeq(f, from, to - 1)
    IN IF w > p /\ g # 0 /\ At(f, s1) = "=" /\ (r > s2 \/ s2 > s1 + 1)
       THEN Match(to, IF Contains(expression, <<".","m","a","p","(">>) /\ Contains(right_side, <<"v","a","l">>)
                      THEN SubSeq(f, p, to - 1)
                      ELSE left_side \o <<" ","=","="," ">> \o right_side)
       ELSE NoMatch

RECURSIVE SubComparison(_, _)
SubComparison(f, p) ==
    LET hits == {q \in p..Len(f) : ComparisonAt(f, q).ok}
    IN IF hits = {} THEN Tail_(f, p)
       ELSE LET q == CHOOSE q \in hits : \A h \in hits : q <= h
                m == ComparisonAt(f, q)
            IN SubSeq(f, p, q - 1) \o m.repl \o SubComparison(f, m.next)

\* One side of the & pattern at position p: \w+ or the given bracket or
\* "[^"]*"; the position behind it, 0 when none is there
ConcatSideEnd(f, p, bracket) ==
    IF At(f, p) \in WordSet THEN SpanWhile(f, p, WordSet)
    ELSE IF At(f, p) = bracket THEN p + 1
    ELSE IF At(f, p) = "\"" /\ SpanUntil(f, p + 1, {"\""}) <= Len(f)
         THEN SpanUntil(f, p + 1, {"\""}) + 1
    ELSE 0

\* (\w+|\)|"[^"]*")\s*&\s*(\w+|\(|"[^"]*") at position p, replaced by \1 + \2
ConcatAt(f, p) ==
    LET g1 == ConcatSideEnd(f, p, ")")
        s1 == SpanWhile(f, g1, SpaceSet)
        s2 == SpanWhile(f, s1 + 1, SpaceSet)
        g2 == ConcatSideEnd(f, s2, "(")
    IN IF g1 # 0 /\ At(f, s1) = "&" /\ g2 # 0
       THEN Match(g2, SubSeq(f, p, g1 - 1) \o <<" ","+"," ">> \o SubSeq(f, s2, g2 - 1))
       ELSE NoMatch

RECURSIVE SubConcat(_, _)
SubConcat(f, p) ==
    LET hits == {q \in p..Len(f) : ConcatAt(f, q).ok}
    IN IF hits = {} THEN Tail_(f, p)
       ELSE LET q == CHOOSE q \in hits : \A h \in hits : q <= h
                m == ConcatAt(f, q)
            IN SubSeq(f, p, q - 1) \o m.repl \o SubConcat(f, m.next)

replace_excel_operators(expression) ==
    LET e1 == Replace(expression, <<"<",">">>, <<"!","=">>)
        e2 == SubDataComparison(e1, 1)
        e3 == IF ~Contains(e2, <<".","m","a","p","(","v","a","l"," ","=",">"," ","v","a","l"," ","=","=">>) THEN SubComparison(e2, 1) ELSE e2
    IN SubConcat(e3, 1)

(***************************************************************************)
(* Specification SpecCmp: the two comparison converters on bounded texts   *)
(***************************************************************************)
MaxCmpPieces == 4

CmpPieces ==
    {<<"a">>, <<"1">>, <<"=">>, <<"<">>, <<">">>, <<"!">>, <<"(">>, <<")">>, <<",">>, <<" ">>, <<"&">>, <<"g","e","t","C","o","l","u","m","n","D","a","t","a","(","\"","a","\"",")">>}

CmpInputs == Concats(CmpPieces, MaxCmpPieces)

InitCmp ==
    /\ headers = <<>>
    /\ column_mapping = <<>>
    /\ reverse_mapping = <<>>
    /\ data = NoData
    /\ row = <<>>
    /\ input \in CmpInputs
    /\ formula = input
    /\ args = <<>>
    /\ num = 0
    /\ result = <<>>
    /\ pc = "cmp"

\* ROW mode: CSVProcessor._convert_comparison_operators(formula)
ConvertComparisonOperators ==
    /\ pc = "cmp"
    /\ formula' = convert_comparison_operators(formula)
    /\ pc' = "row_done"
    /\ UNCHANGED <<headers, column_mapping, reverse_mapping, data, row, input, args, num, result>>

\* COLUMN mode: FormulaEvaluator._replace_excel_operators(expression)
ReplaceExcelOperators ==
    /\ pc = "cmp"
    /\ formula' = replace_excel_operators(formula)
    /\ pc' = "column_done"
    /\ UNCHANGED <<headers, column_mapping, reverse_mapping, data, row, input, args, num, result>>

NextCmp == ConvertComparisonOperators \/ ReplaceExcelOperators

SpecCmp == InitCmp /\ [][NextCmp]_vars

OperatorSet == {"=", "<", ">", "!"}

\* The runs of operator characters of f, as pairs of first and last position
OperatorRuns(f) ==
    {<<i, j>> \in (1..Len(f)) \X (1..Len(f)) :
        /\ i <= j
        /\ \A k \in i..j : f[k] \in OperatorSet
        /\ At(f, i - 1) \notin OperatorSet
        /\ At(f, j + 1) \notin OperatorSet}

\* Every run of operator characters is one operator standing between two
\* operands: behind a name, a number or a closing bracket, before a name, a
\* number or an opening bracket
OperatorsPlain(f) ==
    \A r \in OperatorRuns(f) :
        /\ SubSeq(f, r[1], r[2]) \in {<<"=">>, <<"=","=">>, <<"!","=">>, <<"<","=">>, <<">","=">>, <<"<",">">>, <<"<">>, <<">">>}
        /\ At(f, r[1] - 1) \in WordSet \cup {")"}
        /\ At(f, r[2] + 1) \in WordSet \cup {"("}

\* The text with = turned into ==, <> into != and nothing else touched
RECURSIVE ComparisonsRewritten(_)
ComparisonsRewritten(f) ==
    IF f = <<>> THEN <<>>
    ELSE IF StartsWith(f, <<"<",">">>) THEN <<"!","=">> \o ComparisonsRewritten(Tail_(f, 3))
    ELSE IF \E op \in {<<"=","=">>, <<"!","=">>, <<"<","=">>, <<">","=">>} : StartsWith(f, op)
         THEN SubSeq(f, 1, 2) \o ComparisonsRewritten(Tail_(f, 3))
    ELSE IF Head(f) = "=" THEN <<"=","=">> \o ComparisonsRewritten(Tail(f))
    ELSE <<Head(f)>> \o ComparisonsRewritten(Tail(f))

\* The text without its blanks
Unspaced(f) == SelectSeq(f, LAMBDA c : c # " ")

\* C6: on a text whose operator runs are each one operator (and, for COLUMN
\* mode, that holds no & and no accessor call, which that converter rewrites
\* too) each comparison converter returns the text with every single =
\* rewritten to ==, every <> rewritten to != and every ==, !=, <= and >=
\* unchanged; COLUMN mode may put blanks around the operator.
C6_ComparisonOperatorsConverted ==
    /\ (pc = "row_done" /\ OperatorsPlain(input))
          => formula = ComparisonsRewritten(input)
    /\ (/\ pc = "column_done"
        /\ OperatorsPlain(input)
        /\ ~Contains(input, <<"&">>)
        /\ ~Contains(input, <<"g","e","t","C","o","l","u","m","n","D","a","t","a","(">>))
          => Unspaced(formula) = Unspaced(ComparisonsRewritten(input))

\* The same statement for the ROW mode converter alone
RowModeComparisonsConverted ==
    (pc = "row_done" /\ OperatorsPlain(input)) => formula = ComparisonsRewritten(input)

(***************************************************************************)
(* ROW mode reference resolution:                                          *)
(* CSVProcessor._replace_excel_column_refs_for_row                          *)
(***************************************************************************)
NameStartSet == UpperSet \cup LowerSet \cup {"_"}

Quoted(s) == <<"\"">> \o s \o <<"\"">>

\* The text a callback returns for a value of the row: "0" for NaN, the
\* value in double quotes for a string, str(value) otherwise
EmitValue(value) ==
    IF IsNa(value) THEN <<"0">>
    ELSE IF value.t = "str" THEN Quoted(value.s)
    ELSE IntStr(value.n)

\* The callback of the named-column range pattern; whole is match.group(0)
replace_custom_range(start_name, end_name, whole, r) ==
    IF StartsWith(start_name, end_name) \/ StartsWith(end_name, start_name)
    THEN LET base_name == IF Len(end_name) <= Len(start_name) THEN end_name ELSE start_name
         IN IF base_name \in DOMAIN r THEN EmitValue(r[base_name]) ELSE Quoted(base_name)
    ELSE whole

\* ([a-zA-Z_][a-zA-Z0-9_]{1,})(\d*):([a-zA-Z_][a-zA-Z0-9_]{1,}) at position
\* p: the greedy first group takes the digits too, so (\d*) is always empty
CustomRangeAt(f, p, r) ==
    LET w == SpanWhile(f, p + 1, WordSet)
        e == SpanWhile(f, w + 2, WordSet)
    IN IF /\ At(f, p) \in NameStartSet
          /\ w >= p + 2
          /\ At(f, w) = ":"
          /\ At(f, w + 1) \in NameStartSet
          /\ e >= w + 3
       THEN Match(e, replace_custom_range(SubSeq(f, p, w - 1), SubSeq(f, w + 1, e - 1),
                                          SubSeq(f, p, e - 1), r))
       ELSE NoMatch

RECURSIVE SubCustomRange(_, _, _)
SubCustomRange(f, p, r) ==
    IF p > Len(f) THEN <<>>
    ELSE LET m == CustomRangeAt(f, p, r)
         IN IF m.ok THEN m.repl \o SubCustomRange(f, m.next, r)
            ELSE <<f[p]>> \o SubCustomRange(f, p + 1, r)

\* A callback that reads the first row of the loaded table instead of the
\* row it is given
replace_range_of_first_row(start_col, end_col, whole, mapping, r) ==
    IF start_col = end_col
    THEN LET column_name == DGet(mapping, start_col)
         IN IF column_name # None /\ column_name \in DOMAIN r
            THEN (IF Len(data.rows) >= 1 /\ column_name \in DOMAIN data.rows[1]
                  THEN EmitValue(data.rows[1][column_name]) ELSE <<"0">>)
            ELSE Quoted(start_col)
    ELSE whole

\* The callback of the letter range pattern
replace_range(start_col, end_col, whole, mapping, r) ==
    IF start_col = end_col
    THEN LET column_name == DGet(mapping, start_col)
         IN IF column_name # None /\ column_name \in DOMAIN r
            THEN EmitValue(r[column_name])
            ELSE Quoted(start_col)
    ELSE whole

\* ([A-Z]+)(\d*):([A-Z]+)(\d*) at position p
RangeAt(f, p, mapping, r) ==
    LET u == SpanWhile(f, p, UpperSet)
        d == SpanWhile(f, u, DigitSet)
        u2 == SpanWhile(f, d + 1, UpperSet)
        d2 == SpanWhile(f, u2, DigitSet)
    IN IF u > p /\ At(f, d) = ":" /\ u2 > d + 1
       THEN Match(d2, replace_range(SubSeq(f, p, u - 1), SubSeq(f, d + 1, u2 - 1),
                                    SubSeq(f, p, d2 - 1), mapping, r))
       ELSE NoMatch

RECURSIVE SubRange(_, _, _, _)
SubRange(f, p, mapping, r) ==
    IF p > Len(f) THEN <<>>
    ELSE LET m == RangeAt(f, p, mapping, r)
         IN IF m.ok THEN m.repl \o SubRange(f, m.next, mapping, r)
            ELSE <<f[p]>> \o SubRange(f, p + 1, mapping, r)

\* A callback that reads the row the reference names instead of the
\* current one
replace_cell_of_named_row(col, row_number, mapping, r) ==
    LET column_name == DGet(mapping, col)
        n == StrInt(row_number)
    IN IF column_name # None /\ column_name \in DOMAIN r
       THEN (IF n \in 1..Len(data.rows) THEN EmitValue(data.rows[n][column_name]) ELSE <<"0">>)
       ELSE Quoted(col)

\* The callback of the single cell pattern; row_number is match.group(2)
replace_cell(col, row_number, mapping, r) ==
    LET column_name == DGet(mapping, col)
    IN IF column_name # None /\ column_name \in DOMAIN r
       THEN EmitValue(r[column_name])
       ELSE Quoted(col)

\* ([A-Z]+)(\d+) at position p
CellAt(f, p, mapping, r) ==
    LET u == SpanWhile(f, p, UpperSet)
        d == SpanWhile(f, u, DigitSet)
    IN IF u > p /\ d > u
       THEN Match(d, replace_cell(SubSeq(f, p, u - 1), SubSeq(f, u, d - 1), mapping, r))
       ELSE NoMatch

RECURSIVE SubCell(_, _, _, _)
SubCell(f, p, mapping, r) ==
    IF p > Len(f) THEN <<>>
    ELSE LET m == CellAt(f, p, mapping, r)
         IN IF m.ok THEN m.repl \o SubCell(f, m.next, mapping, r)
            ELSE <<f[p]>> \o SubCell(f, p + 1, mapping, r)

replace_excel_column_refs_for_row(f, mapping, r) ==
    SubCell(SubRange(SubCustomRange(f, 1, r), 1, mapping, r), 1, mapping, r)

(***************************************************************************)
(* Specification SpecRow: ROW mode resolution of bounded texts against a   *)
(* row of a loaded table                                                   *)
(***************************************************************************)
MaxRefPieces == 4

RefPieces == {<<"A">>, <<"B">>, <<"1">>, <<"2">>, <<":">>, <<"a","g","e">>, <<"Q","1">>, <<"+">>}

RefExamples == {<<"s","a","l","e","s","2",":","s","a","l","e","s">>, <<"r","e","g","i","o","n",":","r","e","g","i","o","n">>, <<"A","2",":","A","+","s","a","l","e","s">>, <<"A","2",":","B","1","0">>}

RefInputs == Concats(RefPieces, MaxRefPieces) \cup RefExamples

\* A table is loaded, evaluate_row is called with one of its rows
InitRow ==
    /\ data \in Tables
    /\ headers = data.columns
    /\ column_mapping = create_column_mappings(data.columns)[1]
    /\ reverse_mapping = create_column_mappings(data.columns)[2]
    /\ row \in {data.rows[i] : i \in 1..Len(data.rows)}
    /\ input \in RefInputs
    /\ formula = input
    /\ args = <<>>
    /\ num = 0
    /\ result = <<>>
    /\ pc = "row"

ReplaceExcelColumnRefsForRow ==
    /\ pc = "row"
    /\ formula' = replace_excel_column_refs_for_row(formula, column_mapping, row)
    /\ pc' = "row_resolved"
    /\ UNCHANGED <<headers, column_mapping, reverse_mapping, data, row, input, args, num, result>>

NextRow == ReplaceExcelColumnRefsForRow

SpecRow == InitRow /\ [][NextRow]_vars

\* The literal of a value: a number verbatim, a string in quotes, NaN as 0
LiteralOf(value) ==
    CASE value.t = "num" -> IntStr(value.n)
      [] value.t = "str" -> <<"\"">> \o value.s \o <<"\"">>
      [] value.t = "nan" -> <<"0">>

AllDigits(s) == \A i \in 1..Len(s) : s[i] \in DigitSet

\* f is the letters L followed by a row number
IsCellRef(f, L) ==
    /\ Len(f) > Len(L)
    /\ SubSeq(f, 1, Len(L)) = L
    /\ AllDigits(Tail_(f, Len(L) + 1))

\* f is x, an optional row number, a colon and x again
IsSameRange(f, x) ==
    \E k \in 1..Len(f) :
        /\ f[k] = ":"
        /\ Tail_(f, k + 1) = x
        /\ k > Len(x)
        /\ SubSeq(f, 1, Len(x)) = x
        /\ AllDigits(SubSeq(f, Len(x) + 1, k - 1))

\* C7: in ROW mode a single cell reference L r, L a letter of the schema,
\* resolves to the literal of the current row's value of L's column whatever
\* the row number r is, so two references that differ in the row number alone
\* resolve to the same text.
C7_CellIgnoresRowNumber ==
    pc = "row_resolved" =>
        \A L \in DKeys(column_mapping) :
            IsCellRef(input, L) => formula = LiteralOf(row[DGet(column_mapping, L)])

\* A2 against the first row {age: 5} of a table whose second row holds 7
C7_Witness ==
    /\ pc = "row_resolved"
    /\ input = <<"A","2">>
    /\ Len(data.rows) = 2
    /\ row = data.rows[1]
    /\ row[N_age] = Num(5)
    /\ formula = <<"5">>

\* C8: in ROW mode a reference to a column of the row (a named-column range,
\* a letter range of one column, or a single cell) resolves to the literal of
\* the current row's value: a number verbatim, a string in quotes, NaN as 0.
C8_ReferenceEmitsLiteral ==
    pc = "row_resolved" =>
        /\ \A name \in DOMAIN row :
              IsSameRange(input, name) => formula = LiteralOf(row[name])
        /\ \A L \in DKeys(column_mapping) :
              (IsSameRange(input, L) \/ IsCellRef(input, L))
                 => formula = LiteralOf(row[DGet(column_mapping, L)])

(***************************************************************************)
(* COLUMN mode reference resolution:                                       *)
(* FormulaEvaluator._replace_column_references                              *)
(***************************************************************************)
\* column_mapping.get(col, col)
NameOrLetter(mapping, col) == IF DHas(mapping, col) THEN DGet(mapping, col) ELSE col

\* The callback of the named-column range pattern
replace_custom_range_js(start_name, end_name, whole) ==
    IF StartsWith(start_name, end_name) \/ StartsWith(end_name, start_name)
    THEN LET base_name == IF Len(end_name) <= Len(start_name) THEN end_name ELSE start_name
         IN <<"g","e","t","C","o","l","u","m","n","D","a","t","a","(","\"">> \o base_name \o <<"\"",")">>
    ELSE whole

\* custom_range_pattern at position p (the pattern of ROW mode)
CustomRangeAt_js(f, p) ==
    LET w == SpanWhile(f, p + 1, WordSet)
        e == SpanWhile(f, w + 2, WordSet)
    IN IF /\ At(f, p) \in NameStartSet
          /\ w >= p + 2
          /\ At(f, w) = ":"
          /\ At(f, w + 1) \in NameStartSet
          /\ e >= w + 3
       THEN Match(e, replace_custom_range_js(SubSeq(f, p, w - 1), SubSeq(f, w + 1, e - 1),
                                             SubSeq(f, p, e - 1)))
       ELSE NoMatch

RECURSIVE SubCustomRange_js(_, _)
SubCustomRange_js(f, p) ==
    LET hits == {q \in p..Len(f) : CustomRangeAt_js(f, q).ok}
    IN IF hits = {} THEN Tail_(f, p)
       ELSE LET q == CHOOSE q \in hits : \A h \in hits : q <= h
                m == CustomRangeAt_js(f, q)
            IN SubSeq(f, p, q - 1) \o m.repl \o SubCustomRange_js(f, m.next)

\* The callback of the letter range pattern
replace_range_js(start_col, start_row, end_col, whole, mapping) ==
    IF start_col = end_col
    THEN LET column_name == NameOrLetter(mapping, start_col)
         IN IF start_row # <<>> /\ start_row # <<"1">>
            THEN <<"g","e","t","C","o","l","u","m","n","D","a","t","a","(","\"">> \o column_name \o <<"\"",","," ">> \o start_row \o <<")">>
            ELSE <<"g","e","t","C","o","l","u","m","n","D","a","t","a","(","\"">> \o column_name \o <<"\"",")">>
    ELSE whole

\* range_pattern at position p
RangeAt_js(f, p, mapping) ==
    LET u == SpanWhile(f, p, UpperSet)
        d == SpanWhile(f, u, DigitSet)
        u2 == SpanWhile(f, d + 1, UpperSet)
        d2 == SpanWhile(f, u2, DigitSet)
    IN IF u > p /\ At(f, d) = ":" /\ u2 > d + 1
       THEN Match(d2, replace_range_js(SubSeq(f, p, u - 1), SubSeq(f, u, d - 1),
                                       SubSeq(f, d + 1, u2 - 1), SubSeq(f, p, d2 - 1), mapping))
       ELSE NoMatch

RECURSIVE SubRange_js(_, _, _)
SubRange_js(f, p, mapping) ==
    LET hits == {q \in p..Len(f) : RangeAt_js(f, q, mapping).ok}
    IN IF hits = {} THEN Tail_(f, p)
       ELSE LET q == CHOOSE q \in hits : \A h \in hits : q <= h
                m == RangeAt_js(f, q, mapping)
            IN SubSeq(f, p, q - 1) \o m.repl \o SubRange_js(f, m.next, mapping)

\* The callback of the single cell pattern
replace_cell_js(col, row_number, mapping) ==
    <<"g","e","t","C","e","l","l","V","a","l","u","e","(","\"">> \o NameOrLetter(mapping, col) \o <<"\"",","," ">> \o IntStr(StrInt(row_number) - 1) \o <<")">>

\* cell_pattern at position p
CellAt_js(f, p, mapping) ==
    LET u == SpanWhile(f, p, UpperSet)
        d == SpanWhile(f, u, DigitSet)
    IN IF u > p /\ d > u
       THEN Match(d, replace_cell_js(SubSeq(f, p, u - 1), SubSeq(f, u, d - 1), mapping))
       ELSE NoMatch

RECURSIVE SubCell_js(_, _, _)
SubCell_js(f, p, mapping) ==
    LET hits == {q \in p..Len(f) : CellAt_js(f, q, mapping).ok}
    IN IF hits = {} THEN Tail_(f, p)
       ELSE LET q == CHOOSE q \in hits : \A h \in hits : q <= h
                m == CellAt_js(f, q, mapping)
            IN SubSeq(f, p, q - 1) \o m.repl \o SubCell_js(f, m.next, mapping)

\* reverse_mapping = {v: k for k, v in column_mapping.items()}
RECURSIVE ReverseOf(_)
ReverseOf(mapping) ==
    IF mapping = <<>> THEN <<>>
    ELSE LET n == Len(mapping)
         IN DPut(ReverseOf(SubSeq(mapping, 1, n - 1)), mapping[n].v, mapping[n].k)

\* \b between positions p - 1 and p
WordBoundary(f, p) == (At(f, p - 1) \in WordSet) # (At(f, p) \in WordSet)

\* (?<!getColumnData\(\")\b name \b(?!\"\)) at position p
DirectNameAt(f, p, column_name) ==
    /\ OccursAt(f, column_name, p)
    /\ ~OccursAt(f, <<"g","e","t","C","o","l","u","m","n","D","a","t","a","(","\"">>, p - 15)
    /\ WordBoundary(f, p)
    /\ WordBoundary(f, p + Len(column_name))
    /\ ~OccursAt(f, <<"\"",")">>, p + Len(column_name))

RECURSIVE SubDirectName(_, _, _)
SubDirectName(f, p, column_name) ==
    LET hits == {q \in p..Len(f) : DirectNameAt(f, q, column_name)}
    IN IF hits = {} THEN Tail_(f, p)
       ELSE LET q == CHOOSE q \in hits : \A h \in hits : q <= h
            IN SubSeq(f, p, q - 1) \o <<"g","e","t","C","o","l","u","m","n","D","a","t","a","(","\"">> \o column_name \o <<"\"",")">>
                  \o SubDirectName(f, q + Len(column_name), column_name)

\* for column_name, letter in reverse_mapping.items(): from entry i on
RECURSIVE DirectNames(_, _, _)
DirectNames(f, names, i) ==
    IF i > Len(names) THEN f
    ELSE DirectNames(SubDirectName(f, 1, names[i]), names, i + 1)

replace_column_references(expression, mapping) ==
    LET reversed == ReverseOf(mapping)
    IN DirectNames(SubCell_js(SubRange_js(SubCustomRange_js(expression, 1), 1, mapping), 1, mapping),
                   [i \in 1..Len(reversed) |-> reversed[i].k], 1)

(***************************************************************************)
(* Specification SpecColumn: COLUMN mode resolution of bounded texts       *)
(* against the schema of a loaded table                                    *)
(***************************************************************************)
\* A table is loaded and its column_mapping is handed to the evaluator
InitColumn ==
    /\ data \in Tables
    /\ headers = data.columns
    /\ column_mapping = create_column_mappings(data.columns)[1]
    /\ reverse_mapping = create_column_mappings(data.columns)[2]
    /\ row = <<>>
    /\ input \in RefInputs
    /\ formula = input
    /\ args = <<>>
    /\ num = 0
    /\ result = <<>>
    /\ pc = "column"

ReplaceColumnReferences ==
    /\ pc = "column"
    /\ formula' = replace_column_references(formula, column_mapping)
    /\ pc' = "column_resolved"
    /\ UNCHANGED <<headers, column_mapping, reverse_mapping, data, row, input, args, num, result>>

NextColumn == ReplaceColumnReferences

SpecColumn == InitColumn /\ [][NextColumn]_vars

\* The start row of a range f = x r : x
StartRowOf(f, x) == SubSeq(f, Len(x) + 1, Len(f) - Len(x) - 1)

\* C9: in COLUMN mode a range L r:L of one schema letter L resolves to
\* getColumnData("name(L)", r) when a start row r greater than 1 is there and
\* to getColumnData("name(L)") when the start row is absent or 1.
C9_RangeCarriesStartRow ==
    pc = "column_resolved" =>
        \A L \in DKeys(column_mapping) :
            IsSameRange(input, L) =>
                LET r == StartRowOf(input, L)
                    name == DGet(column_mapping, L)
                IN formula = IF r # <<>> /\ StrInt(r) > 1
                             THEN <<"g","e","t","C","o","l","u","m","n","D","a","t","a","(","\"">> \o name \o <<"\"",","," ">> \o r \o <<")">>
                             ELSE <<"g","e","t","C","o","l","u","m","n","D","a","t","a","(","\"">> \o name \o <<"\"",")">>

\* C10: in COLUMN mode a single cell reference L r of a schema letter L
\* resolves to getCellValue("name(L)", r - 1): one accessor call around the
\* column name, which the direct-column-name step does not wrap again.
C10_CellWrappedOnce ==
    pc = "column_resolved" =>
        \A L \in DKeys(column_mapping) :
            IsCellRef(input, L) =>
                formula = <<"g","e","t","C","e","l","l","V","a","l","u","e","(","\"">> \o DGet(column_mapping, L) \o <<"\"",","," ">>
                             \o IntStr(StrInt(Tail_(input, Len(L) + 1)) - 1) \o <<")">>

\* f is a letter range whose two column letters differ: letters, an optional
\* row number, a colon, other letters, an optional row number
IsCrossRange(f) ==
    \E k \in 2..(Len(f) - 1) :
        LET u == SpanWhile(f, 1, UpperSet)
            u2 == SpanWhile(f, k + 1, UpperSet)
        IN /\ f[k] = ":"
           /\ u > 1
           /\ SpanWhile(f, u, DigitSet) = k
           /\ u2 > k + 1
           /\ SpanWhile(f, u2, DigitSet) = Len(f) + 1
           /\ SubSeq(f, 1, u - 1) # SubSeq(f, k + 1, u2 - 1)

\* C11: a letter range whose start letter differs from its end letter
\* (A2:B10) comes out of reference resolution unchanged, in ROW mode and in
\* COLUMN mode.
C11_CrossRangeUnresolved ==
    (pc \in {"row_resolved", "column_resolved"} /\ IsCrossRange(input)) => formula = input

\* The column a single reference names: the text behind the colon of a range,
\* the leading capital letters of a cell reference
RefColumn(f) ==
    IF \E k \in 1..Len(f) : f[k] = ":"
    THEN Tail_(f, (CHOOSE k \in 1..Len(f) : f[k] = ":" /\ \A j \in (k + 1)..Len(f) : f[j] # ":") + 1)
    ELSE SubSeq(f, 1, SpanWhile(f, 1, UpperSet) - 1)

\* f is one reference (a range x r:x or a cell x r) to a column x, spelled in
\* letters only, that is neither a letter nor a name of the schema
IsUnknownRef(f) ==
    LET x == RefColumn(f)
    IN /\ x # <<>>
       /\ \A i \in 1..Len(x) : x[i] \in UpperSet \cup LowerSet
       /\ IsSameRange(f, x) \/ (IsCellRef(f, x) /\ \A i \in 1..Len(x) : x[i] \in UpperSet)
       /\ IsSameRange(f, x) => (Len(x) >= 2 \/ x[1] \in UpperSet)
       /\ x \notin DKeys(column_mapping)
       /\ x \notin {headers[i] : i \in 1..Len(headers)}

\* C12: a reference of a known shape whose column letter or name is not in
\* the schema resolves, in ROW mode and in COLUMN mode, to a quoted string
\* literal of the raw token (the reference itself, or the column it names).
C12_UnknownRefQuoted ==
    (pc \in {"row_resolved", "column_resolved"} /\ IsUnknownRef(input))
        => formula \in {Quoted(input), Quoted(RefColumn(input))}

\* The same statement for ROW mode alone
RowModeUnknownRefQuoted ==
    (pc = "row_resolved" /\ IsUnknownRef(input))
        => formula \in {Quoted(input), Quoted(RefColumn(input))}

\* The call of kw at position i has a matching closing parenthesis and the
\* number of arguments its converter takes: three for IF
IsWellFormedIf(f, i) ==
    /\ CallAt(f, <<"I","F">>, i).close # 0
    /\ Len(CallAt(f, <<"I","F">>, i).args) = 3

\* C13: an IF occurrence with the wrong number of arguments or without a
\* matching parenthesis is left as it is and the conversion goes on: every
\* well-formed IF call of the formula, in front of it or behind it, is
\* converted, so the text the converter returns holds no well-formed IF call.
C13_MalformedSkipped ==
    pc = "done" => \A i \in Occurrences(formula, <<"I","F">>) : ~IsWellFormedIf(formula, i)

(***************************************************************************)
(* Specification SpecConv: one call of one of the three converters         *)
(***************************************************************************)
InitConv == InitIf \/ InitAndOr

NextConv == NextIf \/ NextAndOr

SpecConv == InitConv /\ [][NextConv]_vars

\* C14: each of the IF, AND and OR converters is idempotent: converting the
\* text a converter returned gives that text again; and a text without the
\* converter's keyword followed by ( is returned unchanged.
C14_ConvertersIdempotent ==
    /\ pc = "done" =>
          /\ convert_if_statements(formula) = formula
          /\ Occurrences(input, <<"I","F">>) = {} => formula = input
    /\ pc = "and_done" =>
          /\ convert_and_statements(formula) = formula
          /\ Occurrences(input, <<"A","N","D">>) = {} => formula = input
    /\ pc = "or_done" =>
          /\ convert_or_statements(formula) = formula
          /\ Occurrences(input, <<"O","R">>) = {} => formula = input

\* The nested example has been converted and converting it again changes
\* nothing
C14_Witness ==
    /\ pc = "done"
    /\ input = IfExample2
    /\ formula # input
    /\ convert_if_statements(formula) = formula

(***************************************************************************)
(* Specification SpecLetter: one call of _number_to_letter, a pass of its  *)
(* while loop per step                                                     *)
(***************************************************************************)
MaxIndex == 702

InitLetter ==
    /\ headers = <<>>
    /\ column_mapping = <<>>
    /\ reverse_mapping = <<>>
    /\ data = NoData
    /\ row = <<>>
    /\ input \in -1..MaxIndex
    /\ formula = <<>>
    /\ args = <<>>
    /\ num = input
    /\ result = <<>>
    /\ pc = "letter"

\* A loop body that puts the new letter behind the ones it has
LetterLoopBody_Appending ==
    /\ pc = "letter"
    /\ num >= 0
    /\ result' = result \o <<Upper[(num % 26) + 1]>>
    /\ num' = (num \div 26) - 1
    /\ pc' = IF num' < 0 THEN "letter_done" ELSE "letter"
    /\ UNCHANGED <<headers, column_mapping, reverse_mapping, data, row, input, formula, args>>

\* while num >= 0: the body, with its break when num has gone below 0
LetterLoopBody ==
    /\ pc = "letter"
    /\ num >= 0
    /\ result' = <<Upper[(num % 26) + 1]>> \o result
    /\ num' = (num \div 26) - 1
    /\ pc' = IF num' < 0 THEN "letter_done" ELSE "letter"
    /\ UNCHANGED <<headers, column_mapping, reverse_mapping, data, row, input, formula, args>>

\* The while condition fails on entry: return result
LetterLoopExit ==
    /\ pc = "letter"
    /\ num < 0
    /\ pc' = "letter_done"
    /\ UNCHANGED <<headers, column_mapping, reverse_mapping, data, row, input, formula, args, num, result>>

NextLetter == LetterLoopBody \/ LetterLoopExit

\* The call is sequential code: a loop pass that can run does run
SpecLetter == InitLetter /\ [][NextLetter]_vars /\ WF_vars(NextLetter)

\* The index a text of capital letters stands for: its value in the base-26
\* code whose digits are A = 1 .. Z = 26, less one
RECURSIVE LetterValue(_)
LetterValue(s) ==
    IF s = <<>> THEN 0
    ELSE 26 * LetterValue(SubSeq(s, 1, Len(s) - 1))
            + (CHOOSE d \in 1..26 : Upper[d] = s[Len(s)])

\* C15: for every index >= 0 the loop of _number_to_letter ends, and it
\* returns the letters-only zero-indexed base-26 code of the index: a
\* non-empty text of capital letters that stands for that index; 0 gives A,
\* 25 gives Z, 26 gives AA and 701 gives ZZ.
C15_LetterFor ==
    /\ [](( pc = "letter_done" /\ input >= 0) =>
            /\ result # <<>>
            /\ \A i \in 1..Len(result) : result[i] \in UpperSet
            /\ LetterValue(result) - 1 = input
            /\ result = number_to_letter(input)
            /\ input = 0 => result = <<"A">>
            /\ input = 25 => result = <<"Z">>
            /\ input = 26 => result = <<"A","A">>
            /\ input = 701 => result = <<"Z","Z">>)
    /\ <>(pc = "letter_done")

C15_Witness ==
    /\ pc = "letter_done"
    /\ input = 701
    /\ result = <<"Z","Z">>

\* The texts of a list one behind the other
RECURSIVE Concatenation(_)
Concatenation(list) ==
    IF list = <<>> THEN <<>> ELSE Head(list) \o Concatenation(Tail(list))

\* s without the characters at the positions of the set cuts
RECURSIVE Without(_, _, _)
Without(s, cuts, i) ==
    IF i > Len(s) THEN <<>>
    ELSE (IF i \in cuts THEN <<>> ELSE <<s[i]>>) \o Without(s, cuts, i + 1)

\* C16: the substrings the splitter returns, put one behind the other, are
\* the input with exactly the splitting commas (C2) taken out: no other
\* character is added, dropped or moved, blanks around an argument included.
C16_SplitKeepsText ==
    pc = "done" => Concatenation(args) = Without(input, SplittingCommas(input), 1)

C16_Witness ==
    /\ pc = "done"
    /\ input = SplitExample3
    /\ args = << <<" ","a"," ">>, <<" ","b"," ">> >>

(***************************************************************************)
(* COLUMN mode pipeline: FormulaEvaluator.convert_formula_to_js            *)
(***************************************************************************)
\* One reference of growth_pattern, [A-Z]+\d*:\d*[A-Z]*, at position p: the
\* position behind it, 0 when there is none
GrowthRefEnd(f, p) ==
    LET u == SpanWhile(f, p, UpperSet)
        d == SpanWhile(f, u, DigitSet)
        d2 == SpanWhile(f, d + 1, DigitSet)
    IN IF u > p /\ At(f, d) = ":" THEN SpanWhile(f, d2, UpperSet) ELSE 0

\* growth_pattern at position p: [ok, next, col1_ref, col2_ref]
GrowthAt(f, p) ==
    LET r1 == p + 10
        e1 == GrowthRefEnd(f, r1)
        e2 == GrowthRefEnd(f, e1 + 1)
        e3 == GrowthRefEnd(f, e2 + 2)
    IN IF /\ OccursAt(f, <<"A","V","E","R","A","G","E","(","(","(">>, p)
          /\ e1 # 0 /\ At(f, e1) = "-"
          /\ e2 # 0 /\ OccursAt(f, <<")","/">>, e2)
          /\ e3 # 0 /\ OccursAt(f, <<")","*","1","0","0",")">>, e3)
       THEN [ok |-> TRUE, next |-> e3 + 6,
             col1_ref |-> SubSeq(f, r1, e1 - 1), col2_ref |-> SubSeq(f, e1 + 1, e2 - 1)]
       ELSE [ok |-> FALSE, next |-> 0, col1_ref |-> <<>>, col2_ref |-> <<>>]

\* re.search(growth_pattern, expression): the first position with a match,
\* 0 when there is none
GrowthSearch(f) ==
    LET hits == {p \in 1..Len(f) : GrowthAt(f, p).ok}
    IN IF hits = {} THEN 0 ELSE CHOOSE p \in hits : \A q \in hits : p <= q

\* re.sub(growth_pattern, replacement, expression)
RECURSIVE SubGrowth(_, _, _)
SubGrowth(f, p, replacement) ==
    LET hits == {q \in p..Len(f) : GrowthAt(f, q).ok}
    IN IF hits = {} THEN Tail_(f, p)
       ELSE LET q == CHOOSE q \in hits : \A h \in hits : q <= h
            IN SubSeq(f, p, q - 1) \o replacement \o SubGrowth(f, GrowthAt(f, q).next, replacement)

\* re.search(r"([A-Z]+)", ref).group(1) for a reference of growth_pattern
FirstLetters(ref) == SubSeq(ref, 1, SpanWhile(ref, 1, UpperSet) - 1)

handle_special_patterns(expression, mapping) ==
    LET at == GrowthSearch(expression)
    IN IF at = 0 THEN expression
       ELSE LET col1_letter == FirstLetters(GrowthAt(expression, at).col1_ref)
                col2_letter == FirstLetters(GrowthAt(expression, at).col2_ref)
            IN IF DHas(mapping, col1_letter) /\ DHas(mapping, col2_letter)
               THEN SubGrowth(expression, 1,
                       <<"a","r","r","a","y","A","v","g","(","a","r","r","a","y","P","e","r","c","e","n","t","a","g","e","G","r","o","w","t","h","(","g","e","t","C","o","l","u","m","n","D","a","t","a","(","\"">> \o DGet(mapping, col1_letter)
                          \o <<"\"",","," ","2",")",","," ","g","e","t","C","o","l","u","m","n","D","a","t","a","(","\"">> \o DGet(mapping, col2_letter) \o <<"\"",","," ","2",")",")",")">>)
               ELSE expression

\* self.excel_to_js_functions, in the order of the dict
excel_to_js_functions ==
    << <<<<"S","U","M">>, <<"a","r","r","a","y","S","u","m">>>>, <<<<"A","V","G">>, <<"a","r","r","a","y","A","v","g">>>>, <<<<"A","V","E","R","A","G","E">>, <<"a","r","r","a","y","A","v","g">>>>,
       <<<<"C","O","U","N","T">>, <<"a","r","r","a","y","C","o","u","n","t">>>>, <<<<"C","O","U","N","T","A">>, <<"a","r","r","a","y","C","o","u","n","t","A">>>>, <<<<"M","A","X">>, <<"a","r","r","a","y","M","a","x">>>>,
       <<<<"M","I","N">>, <<"a","r","r","a","y","M","i","n">>>>, <<<<"S","U","M","I","F">>, <<"a","r","r","a","y","S","u","m","I","f">>>>, <<<<"C","O","U","N","T","I","F">>, <<"a","r","r","a","y","C","o","u","n","t","I","f">>>>,
       <<<<"C","O","U","N","T","I","F","S">>, <<"a","r","r","a","y","C","o","u","n","t","I","f","s">>>>, <<<<"U","N","I","Q","U","E">>, <<"a","r","r","a","y","U","n","i","q","u","e">>>>, <<<<"I","F">>, <<"e","x","c","e","l","I","f">>>>,
       <<<<"A","N","D">>, <<"e","x","c","e","l","A","n","d">>>>, <<<<"O","R">>, <<"e","x","c","e","l","O","r">>>>, <<<<"R","O","U","N","D">>, <<"M","a","t","h",".","r","o","u","n","d">>>>,
       <<<<"A","B","S">>, <<"M","a","t","h",".","a","b","s">>>>, <<<<"M","O","N","T","H">>, <<"g","e","t","M","o","n","t","h">>>>, <<<<"T","O","D","A","Y">>, <<"e","x","c","e","l","T","o","d","a","y">>>>,
       <<<<"I","N","D","E","X">>, <<"a","r","r","a","y","I","n","d","e","x">>>>, <<<<"M","A","T","C","H">>, <<"a","r","r","a","y","M","a","t","c","h">>>>, <<<<"T","I","M","E">>, <<"e","x","c","e","l","T","i","m","e">>>>,
       <<<<"R","I","G","H","T">>, <<"e","x","c","e","l","R","i","g","h","t">>>>, <<<<"M","I","D">>, <<"e","x","c","e","l","M","i","d">>>>, <<<<"L","E","F","T">>, <<"e","x","c","e","l","L","e","f","t">>>>,
       <<<<"V","A","L","U","E">>, <<"p","a","r","s","e","F","l","o","a","t">>>>, <<<<"I","S","N","U","M","B","E","R">>, <<"e","x","c","e","l","I","s","N","u","m","b","e","r">>>>, <<<<"S","E","A","R","C","H">>, <<"e","x","c","e","l","S","e","a","r","c","h">>>>,
       <<<<"H","O","U","R">>, <<"e","x","c","e","l","H","o","u","r">>>>, <<<<"T","I","M","E","V","A","L","U","E">>, <<"e","x","c","e","l","T","i","m","e","V","a","l","u","e">>>>, <<<<"I","N","T">>, <<"M","a","t","h",".","f","l","o","o","r">>>>,
       <<<<"Y","E","A","R">>, <<"a","r","r","a","y","M","a","p","Y","e","a","r">>>>, <<<<"T","E","X","T">>, <<"e","x","c","e","l","T","e","x","t">>>> >>

Lower == <<"a","b","c","d","e","f","g","h","i","j","k","l","m",
           "n","o","p","q","r","s","t","u","v","w","x","y","z">>

\* The letter a character is compared as under re.IGNORECASE
ToUpper(c) == IF c \in LowerSet THEN Upper[CHOOSE i \in 1..26 : Lower[i] = c] ELSE c

\* \b excel_func \s*\( at position p, letter case ignored: the position
\* behind the opening parenthesis, 0 when there is no match
FunctionCallEnd(f, p, excel_func) ==
    LET e == p + Len(excel_func)
        open == SpanWhile(f, e, SpaceSet)
    IN IF /\ WordBoundary(f, p)
          /\ e - 1 <= Len(f)
          /\ \A i \in 1..Len(excel_func) : ToUpper(f[p + i - 1]) = excel_func[i]
          /\ At(f, open) = "("
       THEN open + 1 ELSE 0

\* re.sub(pattern, f"{js_func}(", expression, flags=re.IGNORECASE)
RECURSIVE SubFunction(_, _, _, _)
SubFunction(f, p, excel_func, js_func) ==
    LET hits == {q \in p..Len(f) : FunctionCallEnd(f, q, excel_func) # 0}
    IN IF hits = {} THEN Tail_(f, p)
       ELSE LET q == CHOOSE q \in hits : \A h \in hits : q <= h
            IN SubSeq(f, p, q - 1) \o js_func \o <<"(">>
                  \o SubFunction(f, FunctionCallEnd(f, q, excel_func), excel_func, js_func)

\* for excel_func, js_func in self.excel_to_js_functions.items(): from entry i
\* on.  An entry whose pattern matches nowhere leaves the text as it is, so
\* the loop goes straight to the next entry that has a match.
RECURSIVE ReplaceFunctionsFrom(_, _)
ReplaceFunctionsFrom(f, i) ==
    LET matching == {j \in i..Len(excel_to_js_functions) :
                        \E q \in 1..Len(f) : FunctionCallEnd(f, q, excel_to_js_functions[j][1]) # 0}
    IN IF matching = {} THEN f
       ELSE LET j == CHOOSE j \in matching : \A k \in matching : j <= k
            IN ReplaceFunctionsFrom(
                  SubFunction(f, 1, excel_to_js_functions[j][1], excel_to_js_functions[j][2]), j + 1)

replace_excel_functions(expression) == ReplaceFunctionsFrom(expression, 1)

convert_formula_to_js(f, mapping) ==
    IF ~StartsWith(f, <<"=">>) THEN Quoted(f)
    ELSE CHOOSE e4 \in
            {replace_excel_operators(e3) : e3 \in
               {replace_excel_functions(e2) : e2 \in
                  {replace_column_references(e1, mapping) : e1 \in
                     {handle_special_patterns(Tail_(f, 2), mapping)}}}} : TRUE

(***************************************************************************)
(* Specification SpecJs: COLUMN mode translation of bounded formulas       *)
(* against the schema of a loaded table                                    *)
(***************************************************************************)
\* The growth idiom over the columns X and Y, the ranges starting at row r
GrowthIdiom(X, Y, r) ==
    <<"A","V","E","R","A","G","E","(","(","(">> \o X \o r \o <<":">> \o X \o <<"-">> \o Y \o r \o <<":">> \o Y
        \o <<")","/">> \o Y \o r \o <<":">> \o Y \o <<")","*","1","0","0",")">>

JsTerms ==
    {GrowthIdiom(<<"A">>, <<"B">>, <<"2">>), GrowthIdiom(<<"B">>, <<"A">>, <<"2">>), GrowthIdiom(<<"A">>, <<"C">>, <<"2">>),
     GrowthIdiom(<<"A">>, <<"A">>, <<>>), <<"S","U","M","(","B","2",":","B",")">>, <<"s","u","m"," ","(","A",":","A",")">>, <<"B","1">>, <<"s","a","l","e","s">>, <<"1">>}

MaxTerms == 2

\* Terms joined by +, up to n of them
RECURSIVE SumsOf(_)
SumsOf(n) ==
    IF n = 1 THEN JsTerms
    ELSE SumsOf(n - 1) \cup {s \o <<"+">> \o t : s \in SumsOf(n - 1), t \in JsTerms}

\* Formulas, and texts that are none for want of the leading =
JsInputs == {<<"=">> \o s : s \in SumsOf(MaxTerms)} \cup JsTerms

InitJs ==
    /\ data \in Tables
    /\ headers = data.columns
    /\ column_mapping = create_column_mappings(data.columns)[1]
    /\ reverse_mapping = create_column_mappings(data.columns)[2]
    /\ row = <<>>
    /\ input \in JsInputs
    /\ formula = input
    /\ args = <<>>
    /\ num = 0
    /\ result = <<>>
    /\ pc = "js"

ConvertFormulaToJs ==
    /\ pc = "js"
    /\ formula' = convert_formula_to_js(formula, column_mapping)
    /\ pc' = "js_done"
    /\ UNCHANGED <<headers, column_mapping, reverse_mapping, data, row, input, args, num, result>>

(***************************************************************************)
(* C17: the growth idiom                                                   *)
(***************************************************************************)

\* The call the idiom over columns named x and y stands for
GrowthCall(x, y) ==
    <<"a","r","r","a","y","A","v","g","(","a","r","r","a","y","P","e","r","c","e","n","t","a","g","e","G","r","o","w","t","h","(","g","e","t","C","o","l","u","m","n","D","a","t","a","(","\"">> \o x \o <<"\"",","," ","2",")",","," ","g","e","t","C","o","l","u","m","n","D","a","t","a","(","\"">> \o y \o <<"\"",","," ","2",")",")",")">>

StartRows == {<<>>, <<"2">>}

\* C17: a formula that is one growth idiom over schema letters X and Y
\* translates to the growth call over the columns of X and Y, and a formula
\* that is the sum of two such idioms translates to the sum of the two
\* calls, each over the columns of its own idiom.
C17_GrowthIdiomPerOccurrence ==
    pc = "js_done" =>
        \A X \in DKeys(column_mapping), Y \in DKeys(column_mapping), r \in StartRows :
            /\ input = <<"=">> \o GrowthIdiom(X, Y, r) =>
                  formula = GrowthCall(DGet(column_mapping, X), DGet(column_mapping, Y))
            /\ \A X2 \in DKeys(column_mapping), Y2 \in DKeys(column_mapping), r2 \in StartRows :
                  input = <<"=">> \o GrowthIdiom(X, Y, r) \o <<"+">> \o GrowthIdiom(X2, Y2, r2) =>
                     formula = GrowthCall(DGet(column_mapping, X), DGet(column_mapping, Y)) \o <<"+">>
                                  \o GrowthCall(DGet(column_mapping, X2), DGet(column_mapping, Y2))

(***************************************************************************)
(* The browser side: the data handed to the page and the helpers that an   *)
(* emitted expression calls                                                *)
(***************************************************************************)

\* self.data.fillna("").to_json(orient="records"): the rows, an empty string
\* in place of every missing value
get_data_as_json(df) ==
    [i \in 1..Len(df.rows) |->
        [c \in DOMAIN df.rows[i] |-> IF IsNa(df.rows[i][c]) THEN Str(<<>>) ELSE df.rows[i][c]]]

\* Number(x) for the values a table holds: a number is itself, the empty
\* string is 0, a string of digits is its value, any other string is NaN
JsNumber(x) ==
    IF x.t = "num" THEN x
    ELSE IF x.t = "nan" THEN NaN
    ELSE IF x.s = <<>> THEN Num(0)
    ELSE IF AllDigits(x.s) THEN Num(StrInt(x.s))
    ELSE NaN

\* isNaN(x)
JsIsNaN(x) == IsNa(JsNumber(x))

\* getFilteredData() while window.currentFilters is empty
getFilteredData(dashboardData) == dashboardData

\* filtered.map(row => row[columnName]).filter(val => val !== undefined),
\* rows i.. of filtered
RECURSIVE ColumnValuesFrom(_, _, _)
ColumnValuesFrom(filtered, i, columnName) ==
    IF i > Len(filtered) THEN <<>>
    ELSE (IF columnName \in DOMAIN filtered[i] THEN <<filtered[i][columnName]>> ELSE <<>>)
            \o ColumnValuesFrom(filtered, i + 1, columnName)

\* A getColumnData that honours startRow (row 1 being the header line)
getColumnData_FromStartRow(dashboardData, columnName, startRow) ==
    ColumnValuesFrom(getFilteredData(dashboardData), IF startRow > 1 THEN startRow ELSE 1, columnName)

\* function getColumnData(columnName, startRow = 1): startRow is not used
getColumnData(dashboardData, columnName, startRow) ==
    ColumnValuesFrom(getFilteredData(dashboardData), 1, columnName)

\* arr.filter(x => !isNaN(x) && x !== null && x !== '')
\*    .reduce((sum, val) => sum + Number(val), 0), elements i.. of arr
RECURSIVE SumFrom(_, _)
SumFrom(arr, i) ==
    IF i > Len(arr) THEN 0
    ELSE (IF ~JsIsNaN(arr[i]) /\ arr[i] # Str(<<>>) THEN JsNumber(arr[i]).n ELSE 0) + SumFrom(arr, i + 1)

\* ExcelHelpers.arraySum
arraySum(arr) == SumFrom(arr, 1)

\* An emitted expression of the shape arraySum(getColumnData("name", n)) or
\* arraySum(getColumnData("name")): its name and start row (1 by default),
\* ok FALSE for every other expression
SumCall(e) ==
    LET head == <<"a","r","r","a","y","S","u","m","(","g","e","t","C","o","l","u","m","n","D","a","t","a","(","\"">>
        from == Len(head) + 1
        quote == SpanUntil(e, from, {"\""})
        name == SubSeq(e, from, quote - 1)
        rest == Tail_(e, quote)
        digits == SubSeq(rest, 4, Len(rest) - 2)
    IN IF ~StartsWith(e, head) \/ quote > Len(e) THEN [ok |-> FALSE, name |-> <<>>, startRow |-> 1]
       ELSE IF rest = <<"\"",")",")">> THEN [ok |-> TRUE, name |-> name, startRow |-> 1]
       ELSE IF /\ StartsWith(rest, <<"\"",","," ">>)
               /\ Len(rest) >= 6
               /\ SubSeq(rest, Len(rest) - 1, Len(rest)) = <<")",")">>
               /\ AllDigits(digits)
            THEN [ok |-> TRUE, name |-> name, startRow |-> StrInt(digits)]
       ELSE [ok |-> FALSE, name |-> <<>>, startRow |-> 1]

\* The page evaluates an emitted column sum against window.dashboardData
EvaluateJs ==
    /\ pc = "js_done"
    /\ SumCall(formula).ok
    /\ result' = Num(arraySum(getColumnData(get_data_as_json(data), SumCall(formula).name,
                                            SumCall(formula).startRow)))
    /\ pc' = "evaluated"
    /\ UNCHANGED <<headers, column_mapping, reverse_mapping, data, row, input, formula, args, num>>

NextJs == ConvertFormulaToJs \/ EvaluateJs

SpecJs == InitJs /\ [][NextJs]_vars

(***************************************************************************)
(* C18: =SUM(B2:B) end to end                                              *)
(***************************************************************************)

\* The scenario: schema {A: region, B: sales}, rows (east, 100), (west, 200),
\* formula =SUM(B2:B)
SalesScenario ==
    /\ column_mapping = <<[k |-> <<"A">>, v |-> N_region], [k |-> <<"B">>, v |-> N_sales]>>
    /\ data.rows = << (N_region :> Str(V_east)) @@ (N_sales :> Num(100)),
                      (N_region :> Str(V_west)) @@ (N_sales :> Num(200)) >>
    /\ input = <<"=","S","U","M","(","B","2",":","B",")">>

\* C18: in the scenario the formula translates to
\* arraySum(getColumnData("sales", 2)), the page can evaluate that
\* expression, and with no filter active its value is 300.
C18_SumEndToEnd ==
    SalesScenario =>
        /\ pc \in {"js_done", "evaluated"} =>
              /\ formula = <<"a","r","r","a","y","S","u","m","(","g","e","t","C","o","l","u","m","n","D","a","t","a","(","\"","s","a","l","e","s","\"",","," ","2",")",")">>
              /\ SumCall(formula).ok
        /\ pc = "evaluated" => result = Num(300)

C18_Witness == SalesScenario /\ pc = "evaluated" /\ result = Num(300)

(***************************************************************************)
(* SEARCH and ISNUMBER in the two back ends                                *)
(***************************************************************************)

ToLowerChar(c) == IF c \in UpperSet THEN Lower[CHOOSE i \in 1..26 : Upper[i] = c] ELSE c

\* str.lower() and String.prototype.toLowerCase() on ASCII text
ToLower(s) == [i \in 1..Len(s) |-> ToLowerChar(s[i])]

\* s[i : i + len(sub)] == sub, i counted from 0
SliceIs(s, sub, i) ==
    /\ i + Len(sub) <= Len(s)
    /\ \A k \in 1..Len(sub) : s[i + k] = sub[k]

\* str.find(sub, start) for start >= 0: the lowest index from start on at
\* which sub begins, -1 when there is none
PyFind(s, sub, start) ==
    LET found == {i \in start..Len(s) : SliceIs(s, sub, i)}
    IN IF found = {} THEN -1 ELSE CHOOSE i \in found : \A j \in found : i <= j

\* String.prototype.indexOf(search, position): position is clamped to
\* 0..length
JsIndexOf(s, search, position) ==
    LET pos == IF position < 0 THEN 0 ELSE IF position > Len(s) THEN Len(s) ELSE position
        found == {i \in pos..Len(s) : SliceIs(s, search, i)}
    IN IF found = {} THEN -1 ELSE CHOOSE i \in found : \A j \in found : i <= j

\* CSVProcessor.excel_search on texts
excel_search(find_text, within_text, start_num) ==
    LET within_str == ToLower(within_text)
        find_str == ToLower(find_text)
        start_pos == start_num - 1
        pos == PyFind(within_str, find_str, start_pos)
    IN IF pos = -1 THEN NaN ELSE Num(pos + 1)

\* CSVProcessor.excel_isnumber: float(value) succeeds and is not NaN (of the
\* strings, those of digits are taken as the ones float() accepts)
excel_isnumber(value) ==
    IF value.t = "num" THEN TRUE
    ELSE IF value.t = "nan" THEN FALSE
    ELSE value.s # <<>> /\ AllDigits(value.s)

\* ExcelHelpers.excelSearch on texts
excelSearch(findText, withinText, startNum) ==
    LET index == JsIndexOf(ToLower(withinText), ToLower(findText), startNum - 1)
    IN IF index >= 0 THEN Num(index + 1) ELSE Num(-1)

\* parseFloat(value) is not NaN
ParseFloatOk(value) ==
    IF value.t = "num" THEN TRUE
    ELSE IF value.t = "nan" THEN FALSE
    ELSE value.s # <<>> /\ value.s[1] \in DigitSet

\* ExcelHelpers.excelIsNumber
excelIsNumber(value) == ~JsIsNaN(value) /\ ParseFloatOk(value)

(***************************************************************************)
(* Specification SpecSearch: ISNUMBER(SEARCH(find, within)) on bounded     *)
(* texts, in ROW mode and in COLUMN mode                                   *)
(***************************************************************************)
SearchAlphabet == {"a", "A", "b"}

MaxWithinLen == 3

MaxFindLen == 2

TextsUpTo(n) == UNION {[1..k -> SearchAlphabet] : k \in 0..n}

StartNums == {1, 2}

InitSearch ==
    /\ headers = <<>>
    /\ column_mapping = <<>>
    /\ reverse_mapping = <<>>
    /\ data = NoData
    /\ row = <<>>
    /\ input = <<>>
    /\ formula = <<>>
    /\ args \in {<<f, w>> : f \in TextsUpTo(MaxFindLen), w \in TextsUpTo(MaxWithinLen)}
    /\ num \in StartNums
    /\ result = <<>>
    /\ pc = "search"

\* ROW mode: excel_isnumber(excel_search(find, within, start))
SearchInRow ==
    /\ pc = "search"
    /\ result' = [search |-> excel_search(args[1], args[2], num),
                  isnumber |-> excel_isnumber(excel_search(args[1], args[2], num))]
    /\ pc' = "row_searched"
    /\ UNCHANGED <<headers, column_mapping, reverse_mapping, data, row, input, formula, args, num>>

\* COLUMN mode: excelIsNumber(excelSearch(find, within, start))
SearchInColumn ==
    /\ pc = "search"
    /\ result' = [search |-> excelSearch(args[1], args[2], num),
                  isnumber |-> excelIsNumber(excelSearch(args[1], args[2], num))]
    /\ pc' = "column_searched"
    /\ UNCHANGED <<headers, column_mapping, reverse_mapping, data, row, input, formula, args, num>>

NextSearch == SearchInRow \/ SearchInColumn

SpecSearch == InitSearch /\ [][NextSearch]_vars

(***************************************************************************)
(* C20                                                                     *)
(***************************************************************************)

\* The 1-based positions at which find occurs in within, letter case ignored
OccurrencesIgnoringCase(find, within) ==
    {p \in 1..(Len(within) + 1) : SliceIs(ToLower(within), ToLower(find), p - 1)}

\* What the claim says SEARCH gives: the first position, or the sentinel
SearchResult(find, within, sentinel) ==
    LET at == OccurrencesIgnoringCase(find, within)
    IN IF at = {} THEN sentinel ELSE Num(CHOOSE p \in at : \A q \in at : p <= q)

\* C20: SEARCH(find, within) is the 1-based position of the first
\* occurrence of find in within, letter case ignored, or NaN in ROW mode and
\* -1 in COLUMN mode when there is none; and ISNUMBER of that result is true
\* exactly when find occurs in within, in both modes.
C20_SearchThenIsNumber ==
    num = 1 =>
        /\ pc = "row_searched" =>
              /\ result.search = SearchResult(args[1], args[2], NaN)
              /\ result.isnumber = (OccurrencesIgnoringCase(args[1], args[2]) # {})
        /\ pc = "column_searched" =>
              /\ result.search = SearchResult(args[1], args[2], Num(-1))
              /\ result.isnumber = (OccurrencesIgnoringCase(args[1], args[2]) # {})

\* The part of C20 that holds: the position or sentinel in both modes, and
\* ISNUMBER in ROW mode
SearchPositionsAndRowIsNumber ==
    num = 1 =>
        /\ pc = "row_searched" =>
              /\ result.search = SearchResult(args[1], args[2], NaN)
              /\ result.isnumber = (OccurrencesIgnoringCase(args[1], args[2]) # {})
        /\ pc = "column_searched" =>
              result.search = SearchResult(args[1], args[2], Num(-1))

(***************************************************************************)
(* TEXT in the two back ends.  A number is held as its count of            *)
(* hundredths; the values explored are multiples of 0.25, which a float    *)
(* holds exactly, so that every rounding below is a rounding of the exact  *)
(* decimal value.                                                          *)
(***************************************************************************)

\* float(value_str) / Number(str) for a text of digits with at most two
\* decimals: ok and the count of hundredths
ParseNumber(s) ==
    LET dot == Find(s, <<".">>)
        whole == IF dot = 0 THEN s ELSE SubSeq(s, 1, dot - 1)
        frac == IF dot = 0 THEN <<>> ELSE Tail_(s, dot + 1)
    IN IF whole # <<>> /\ AllDigits(whole) /\ AllDigits(frac) /\ Len(frac) <= 2
       THEN [ok |-> TRUE,
             hundredths |-> 100 * StrInt(whole)
                               + (IF Len(frac) = 1 THEN 10 * StrInt(frac) ELSE StrInt(frac))]
       ELSE [ok |-> FALSE, hundredths |-> 0]

\* h / unit rounded to an integer, a tie going to the even neighbour
\* (Python's format) or upwards (Math.round, toFixed, toLocaleString)
RoundTo(h, unit, ties) ==
    LET q == h \div unit
        r == h % unit
    IN IF 2 * r < unit THEN q
       ELSE IF 2 * r > unit THEN q + 1
       ELSE IF ties = "even" /\ q % 2 = 0 THEN q
       ELSE q + 1

\* Text of n with at least two digits: f"{n:02d}", padStart(2, '0')
Pad2(n) == IF n < 10 THEN <<"0">> \o NatStr(n) ELSE NatStr(n)

Zeros(n) == [i \in 1..n |-> "0"]

\* The integer part and the decimals of h hundredths at `places` decimals
FixedParts(h, places, ties) ==
    IF places = 0 THEN [whole |-> NatStr(RoundTo(h, 100, ties)), frac |-> <<>>]
    ELSE IF places = 1
    THEN [whole |-> NatStr(RoundTo(h, 10, ties) \div 10), frac |-> NatStr(RoundTo(h, 10, ties) % 10)]
    ELSE [whole |-> NatStr(h \div 100), frac |-> Pad2(h % 100) \o Zeros(places - 2)]

\* f"{x:.{places}f}" with ties "even", x.toFixed(places) with ties "up"
Fixed(h, places, ties) ==
    LET parts == FixedParts(h, places, ties)
    IN IF places = 0 THEN parts.whole ELSE parts.whole \o <<".">> \o parts.frac

\* Digits with a comma before every group of three
RECURSIVE Grouped(_)
Grouped(digits) ==
    IF Len(digits) <= 3 THEN digits
    ELSE Grouped(SubSeq(digits, 1, Len(digits) - 3)) \o <<",">> \o SubSeq(digits, Len(digits) - 2, Len(digits))

\* f"{x:,.{places}f}" with ties "even"; toLocaleString('en-US', ...) with
\* ties "up"
FixedGrouped(h, places, ties) ==
    LET parts == FixedParts(h, places, ties)
    IN IF places = 0 THEN Grouped(parts.whole) ELSE Grouped(parts.whole) \o <<".">> \o parts.frac

\* ^[#0,]+$
IsCommaPattern(format) ==
    format # <<>> /\ \A i \in 1..Len(format) : format[i] \in {"#", "0", ","}

\* ^[#0,]+\.[#0]+$
IsCommaDecimalPattern(format) ==
    \E dot \in 2..(Len(format) - 1) :
        /\ format[dot] = "."
        /\ IsCommaPattern(SubSeq(format, 1, dot - 1))
        /\ \A i \in (dot + 1)..Len(format) : format[i] \in {"#", "0"}

\* len(format_str.split(".")[1])
DecimalPlaces(format) == Len(format) - Find(format, <<".">>)

months == <<<<"J","a","n">>, <<"F","e","b">>, <<"M","a","r">>, <<"A","p","r">>, <<"M","a","y">>, <<"J","u","n">>, <<"J","u","l">>, <<"A","u","g">>, <<"S","e","p">>, <<"O","c","t">>, <<"N","o","v">>, <<"D","e","c">>>>

fullMonths == <<<<"J","a","n","u","a","r","y">>, <<"F","e","b","r","u","a","r","y">>, <<"M","a","r","c","h">>, <<"A","p","r","i","l">>, <<"M","a","y">>, <<"J","u","n","e">>, <<"J","u","l","y">>, <<"A","u","g","u","s","t">>,
                <<"S","e","p","t","e","m","b","e","r">>, <<"O","c","t","o","b","e","r">>, <<"N","o","v","e","m","b","e","r">>, <<"D","e","c","e","m","b","e","r">>>>

DaysIn(year, month) ==
    IF month \in {4, 6, 9, 11} THEN 30
    ELSE IF month # 2 THEN 31
    ELSE IF year % 4 = 0 /\ (year % 100 # 0 \/ year % 400 = 0) THEN 29
    ELSE 28

NoDate == [ok |-> FALSE, year |-> 0, month |-> 0, day |-> 0]

\* datetime.strptime(value_str, "%Y-%m-%d") / new Date(str) for a text
\* YYYY-MM-DD (the one date form among the values explored)
ParseIsoDate(s) ==
    IF /\ Len(s) = 10
       /\ s[5] = "-" /\ s[8] = "-"
       /\ AllDigits(SubSeq(s, 1, 4)) /\ AllDigits(SubSeq(s, 6, 7)) /\ AllDigits(SubSeq(s, 9, 10))
    THEN LET y == StrInt(SubSeq(s, 1, 4))
             m == StrInt(SubSeq(s, 6, 7))
             d == StrInt(SubSeq(s, 9, 10))
         IN IF y >= 1 /\ m \in 1..12 /\ d >= 1 /\ d <= DaysIn(y, m)
            THEN [ok |-> TRUE, year |-> y, month |-> m, day |-> d]
            ELSE NoDate
    ELSE NoDate

\* value.strip('"'): the text without the quotes at its two ends
RECURSIVE StripQuotes(_)
StripQuotes(s) ==
    IF s # <<>> /\ Head(s) = "\"" THEN StripQuotes(Tail(s))
    ELSE IF s # <<>> /\ s[Len(s)] = "\"" THEN StripQuotes(SubSeq(s, 1, Len(s) - 1))
    ELSE s

\* excel_text, the branch "if date_obj:"; None where no pattern applies
excel_text_date(format_str, date_obj) ==
    LET code == ToLower(format_str)
    IN IF code \in {<<"m","m","m"," ","y","y","y","y">>, <<"m","m","m","-","y","y","y","y">>} THEN months[date_obj.month] \o <<" ">> \o NatStr(date_obj.year)
       ELSE IF code \in {<<"m","m","m","m"," ","y","y","y","y">>, <<"m","m","m","m","-","y","y","y","y">>} THEN fullMonths[date_obj.month] \o <<" ">> \o NatStr(date_obj.year)
       ELSE IF code \in {<<"m","m","/","y","y","y","y">>, <<"m","m","-","y","y","y","y">>} THEN Pad2(date_obj.month) \o <<"/">> \o NatStr(date_obj.year)
       ELSE IF code \in {<<"y","y","y","y","-","m","m">>, <<"y","y","y","y","/","m","m">>} THEN NatStr(date_obj.year) \o <<"-">> \o Pad2(date_obj.month)
       ELSE IF code = <<"y","y","y","y","-","m","m","-","d","d">>
       THEN NatStr(date_obj.year) \o <<"-">> \o Pad2(date_obj.month) \o <<"-">> \o Pad2(date_obj.day)
       ELSE IF code = <<"m","m","/","d","d","/","y","y","y","y">>
       THEN Pad2(date_obj.month) \o <<"/">> \o Pad2(date_obj.day) \o <<"/">> \o NatStr(date_obj.year)
       ELSE IF code = <<"d","d","/","m","m","/","y","y","y","y">>
       THEN Pad2(date_obj.day) \o <<"/">> \o Pad2(date_obj.month) \o <<"/">> \o NatStr(date_obj.year)
       ELSE IF code \in {<<"m","m","m">>, <<"m","o","n">>} THEN months[date_obj.month]
       ELSE IF code \in {<<"m","m","m","m">>, <<"m","o","n","t","h">>} THEN fullMonths[date_obj.month]
       ELSE IF code \in {<<"y","y","y","y">>, <<"y","e","a","r">>} THEN NatStr(date_obj.year)
       ELSE IF code \in {<<"m","m">>, <<"m","o","n","t","h","_","n","u","m">>} THEN Pad2(date_obj.month)
       ELSE IF code \in {<<"d","d">>, <<"d","a","y">>} THEN Pad2(date_obj.day)
       ELSE None

\* excel_text, the branch after num_value = float(value_str); None where no
\* pattern applies
excel_text_number(format_str, h) ==
    LET code == ToLower(format_str)
    IN IF code \in {<<"0">>, <<"#">>} THEN NatStr(h \div 100)
       ELSE IF code \in {<<"0",".","0">>, <<"#",".","#">>} THEN Fixed(h, 1, "even")
       ELSE IF code \in {<<"0",".","0","0">>, <<"#",".","#","#">>} THEN Fixed(h, 2, "even")
       ELSE IF code \in {<<"0","%">>, <<"#","%">>} THEN Fixed(100 * h, 0, "even") \o <<"%">>
       ELSE IF code \in {<<"0",".","0","%">>, <<"#",".","#","%">>} THEN Fixed(100 * h, 1, "even") \o <<"%">>
       ELSE IF code \in {<<"0",".","0","0","%">>, <<"#",".","#","#","%">>} THEN Fixed(100 * h, 2, "even") \o <<"%">>
       ELSE IF code \in {<<"$","0">>, <<"$","#">>} THEN <<"$">> \o Fixed(h, 0, "even")
       ELSE IF code \in {<<"$","0",".","0","0">>, <<"$","#",".","#","#">>} THEN <<"$">> \o Fixed(h, 2, "even")
       ELSE IF IsCommaPattern(format_str) THEN FixedGrouped(h, 0, "even")
       ELSE IF IsCommaDecimalPattern(format_str) THEN FixedGrouped(h, DecimalPlaces(format_str), "even")
       ELSE None

\* CSVProcessor.excel_text on a text value and a format code
excel_text(value, format_code) ==
    LET value_str == Strip(value)
        format_str == StripQuotes(Strip(format_code))
        date_obj == ParseIsoDate(value_str)
        as_date == IF date_obj.ok THEN excel_text_date(format_str, date_obj) ELSE None
        num_value == ParseNumber(value_str)
        as_number == IF num_value.ok THEN excel_text_number(format_str, num_value.hundredths) ELSE None
    IN IF as_date # None THEN as_date
       ELSE IF as_number # None THEN as_number
       ELSE value_str

\* format.replace(/"/g, ''): the text without any of its quotes
WithoutQuotes(s) == Without(s, {i \in 1..Len(s) : s[i] = "\""}, 1)

\* The local calendar day of a date that new Date("YYYY-MM-DD") has put at
\* midnight UTC: the same day where local time is not behind UTC (shift 0),
\* the day before where it is (shift -1)
LocalDate(date, shift) ==
    IF shift = 0 THEN date
    ELSE IF date.day > 1 THEN [date EXCEPT !.day = date.day - 1]
    ELSE IF date.month > 1
    THEN [date EXCEPT !.month = date.month - 1, !.day = DaysIn(date.year, date.month - 1)]
    ELSE [date EXCEPT !.year = date.year - 1, !.month = 12, !.day = 31]

\* excelText, the switch under "if (!isNaN(date.getTime()))"; None where no
\* case applies
excelText_date(format, date) ==
    IF format \in {<<"m","m","m"," ","y","y","y","y">>, <<"m","m","m","-","y","y","y","y">>} THEN months[date.month] \o <<" ">> \o NatStr(date.year)
    ELSE IF format \in {<<"m","m","m","m"," ","y","y","y","y">>, <<"m","m","m","m","-","y","y","y","y">>} THEN fullMonths[date.month] \o <<" ">> \o NatStr(date.year)
    ELSE IF format \in {<<"m","m","/","y","y","y","y">>, <<"m","m","-","y","y","y","y">>} THEN Pad2(date.month) \o <<"/">> \o NatStr(date.year)
    ELSE IF format \in {<<"y","y","y","y","-","m","m">>, <<"y","y","y","y","/","m","m">>} THEN NatStr(date.year) \o <<"-">> \o Pad2(date.month)
    ELSE IF format = <<"y","y","y","y","-","m","m","-","d","d">>
    THEN NatStr(date.year) \o <<"-">> \o Pad2(date.month) \o <<"-">> \o Pad2(date.day)
    ELSE IF format = <<"m","m","/","d","d","/","y","y","y","y">>
    THEN Pad2(date.month) \o <<"/">> \o Pad2(date.day) \o <<"/">> \o NatStr(date.year)
    ELSE IF format = <<"d","d","/","m","m","/","y","y","y","y">>
    THEN Pad2(date.day) \o <<"/">> \o Pad2(date.month) \o <<"/">> \o NatStr(date.year)
    ELSE IF format \in {<<"m","m","m">>, <<"m","o","n">>} THEN months[date.month]
    ELSE IF format \in {<<"m","m","m","m">>, <<"m","o","n","t","h">>} THEN fullMonths[date.month]
    ELSE IF format \in {<<"y","y","y","y">>, <<"y","e","a","r">>} THEN NatStr(date.year)
    ELSE IF format \in {<<"m","m">>, <<"m","o","n","t","h","_","n","u","m">>} THEN Pad2(date.month)
    ELSE IF format \in {<<"d","d">>, <<"d","a","y">>} THEN Pad2(date.day)
    ELSE None

\* excelText, the switch under "if (!isNaN(numValue) && isFinite(numValue))";
\* None where no case applies
excelText_number(format, h) ==
    IF format \in {<<"0">>, <<"#">>} THEN NatStr(RoundTo(h, 100, "up"))
    ELSE IF format \in {<<"0",".","0">>, <<"#",".","#">>} THEN Fixed(h, 1, "up")
    ELSE IF format \in {<<"0",".","0","0">>, <<"#",".","#","#">>} THEN Fixed(h, 2, "up")
    ELSE IF format \in {<<"0","%">>, <<"#","%">>} THEN NatStr(RoundTo(100 * h, 100, "up")) \o <<"%">>
    ELSE IF format \in {<<"0",".","0","%">>, <<"#",".","#","%">>} THEN Fixed(100 * h, 1, "up") \o <<"%">>
    ELSE IF format \in {<<"0",".","0","0","%">>, <<"#",".","#","#","%">>} THEN Fixed(100 * h, 2, "up") \o <<"%">>
    ELSE IF format \in {<<"$","0">>, <<"$","#">>} THEN <<"$">> \o NatStr(RoundTo(h, 100, "up"))
    ELSE IF format \in {<<"$","0",".","0","0">>, <<"$","#",".","#","#">>} THEN <<"$">> \o Fixed(h, 2, "up")
    ELSE IF IsCommaPattern(format) THEN FixedGrouped(h, 0, "up")
    ELSE IF IsCommaDecimalPattern(format) THEN FixedGrouped(h, DecimalPlaces(format), "up")
    ELSE None

\* ExcelHelpers.excelText on a text value and a format code, in a browser
\* whose local time is shift days from UTC at midnight UTC
excelText(value, formatCode, shift) ==
    LET str == Strip(value)
        format == ToLower(WithoutQuotes(Strip(formatCode)))
        date == ParseIsoDate(str)
        as_date == IF date.ok THEN excelText_date(format, LocalDate(date, shift)) ELSE None
        numValue == ParseNumber(str)
        as_number == IF numValue.ok THEN excelText_number(format, numValue.hundredths) ELSE None
    IN IF as_date # None THEN as_date
       ELSE IF as_number # None THEN as_number
       ELSE str

(***************************************************************************)
(* Specification SpecText: TEXT(value, code) over the format table, in ROW *)
(* mode and in COLUMN mode                                                 *)
(***************************************************************************)
DateCodes ==
    {<<"m","m","m"," ","y","y","y","y">>, <<"m","m","m","-","y","y","y","y">>, <<"m","m","m","m"," ","y","y","y","y">>, <<"m","m","m","m","-","y","y","y","y">>, <<"m","m","/","y","y","y","y">>, <<"m","m","-","y","y","y","y">>, <<"y","y","y","y","-","m","m">>, <<"y","y","y","y","/","m","m">>,
     <<"y","y","y","y","-","m","m","-","d","d">>, <<"m","m","/","d","d","/","y","y","y","y">>, <<"d","d","/","m","m","/","y","y","y","y">>, <<"m","m","m">>, <<"m","o","n">>, <<"m","m","m","m">>, <<"m","o","n","t","h">>, <<"y","y","y","y">>, <<"y","e","a","r">>,
     <<"m","m">>, <<"m","o","n","t","h","_","n","u","m">>, <<"d","d">>, <<"d","a","y">>, <<"M","M","M"," ","Y","Y","Y","Y">>}

NumberCodes ==
    {<<"0">>, <<"#">>, <<"0",".","0">>, <<"#",".","#">>, <<"0",".","0","0">>, <<"#",".","#","#">>, <<"0","%">>, <<"#","%">>, <<"0",".","0","%">>, <<"#",".","#","%">>, <<"0",".","0","0","%">>, <<"#",".","#","#","%">>,
     <<"$","0">>, <<"$","#">>, <<"$","0",".","0","0">>, <<"$","#",".","#","#">>, <<"#",",","#","#","0">>, <<"#",",","#","#","0",".","0","0">>, <<"#",",","#","#","0",".","0">>}

\* Codes outside the table
OtherCodes == {<<"x","y","z">>, <<>>}

DateValues == {<<"2","0","2","4","-","0","3","-","1","5">>, <<"2","0","2","4","-","0","3","-","0","1">>, <<"2","0","2","4","-","0","1","-","0","1">>}

\* Numbers: multiples of 0.25, written as str() and String() write them
NumberValues == {<<"1","2","3","4",".","5">>, <<"0",".","5">>, <<"2",".","2","5">>, <<"1","0","0","0">>, <<"0",".","2","5">>, <<"1","2">>, <<"3",".","5">>}

OtherValues == {<<"e","a","s","t">>}

\* Days between the local date and the UTC date at midnight UTC
TzShifts == {0, -1}

\* A number is formatted with a number code or a code outside the table
\* (what new Date() makes of a text that is a number is left to the
\* browser, and it only matters under a date code)
InitText ==
    /\ headers = <<>>
    /\ column_mapping = <<>>
    /\ reverse_mapping = <<>>
    /\ data = NoData
    /\ row = <<>>
    /\ input = <<>>
    /\ formula = <<>>
    /\ args \in {<<v, c>> : v \in DateValues \cup OtherValues, c \in DateCodes \cup NumberCodes \cup OtherCodes}
                  \cup {<<v, c>> : v \in NumberValues, c \in NumberCodes \cup OtherCodes}
    /\ num \in TzShifts
    /\ result = [row |-> None, column |-> None]
    /\ pc = "text"

\* ROW mode: excel_text(value, format_code)
TextInRow ==
    /\ pc \in {"text", "text_column"}
    /\ result' = [result EXCEPT !.row = excel_text(args[1], args[2])]
    /\ pc' = IF pc = "text" THEN "text_row" ELSE "text_both"
    /\ UNCHANGED <<headers, column_mapping, reverse_mapping, data, row, input, formula, args, num>>

\* COLUMN mode: excelText(value, formatCode)
TextInColumn ==
    /\ pc \in {"text", "text_row"}
    /\ result' = [result EXCEPT !.column = excelText(args[1], args[2], num)]
    /\ pc' = IF pc = "text" THEN "text_column" ELSE "text_both"
    /\ UNCHANGED <<headers, column_mapping, reverse_mapping, data, row, input, formula, args, num>>

NextText == TextInRow \/ TextInColumn

SpecText == InitText /\ [][NextText]_vars

(***************************************************************************)
(* C19                                                                     *)
(***************************************************************************)

\* The outputs the claim lists: value, code, output
TextTable ==
    {<<<<"1","2","3","4",".","5">>, <<"0">>, <<"1","2","3","5">>>>, <<<<"1","2","3","4",".","5">>, <<"#">>, <<"1","2","3","5">>>>,
     <<<<"1","2","3","4",".","5">>, <<"$","0">>, <<"$","1","2","3","5">>>>, <<<<"1","2","3","4",".","5">>, <<"$","#">>, <<"$","1","2","3","5">>>>,
     <<<<"1","2","3","4",".","5">>, <<"#",",","#","#","0">>, <<"1",",","2","3","5">>>>, <<<<"1","2","3","4",".","5">>, <<"0",".","0","0">>, <<"1","2","3","4",".","5","0">>>>,
     <<<<"0",".","5">>, <<"0","%">>, <<"5","0","%">>>>, <<<<"2","0","2","4","-","0","3","-","1","5">>, <<"m","m","m"," ","y","y","y","y">>, <<"M","a","r"," ","2","0","2","4">>>>}

\* C19: for every value and format code of the format table the ROW mode
\* TEXT and the COLUMN mode TEXT give the same text, and for the listed
\* values and codes that text is the listed output.
C19_TextSameInBothModes ==
    pc = "text_both" =>
        /\ args[2] \in DateCodes \cup NumberCodes => result.row = result.column
        /\ \A line \in TextTable :
              args = <<line[1], line[2]>> => result.row = line[3] /\ result.column = line[3]

\* What does hold: COLUMN mode gives the listed outputs, and the two modes
\* agree on numbers that need no rounding and on dates seen from a browser
\* whose local day is the UTC day
TextAgreesWithoutRounding ==
    pc = "text_both" =>
        /\ \A line \in TextTable : args = <<line[1], line[2]>> => result.column = line[3]
        /\ args[1] \in DateValues /\ num = 0 => result.row = result.column
        /\ args[1] \in {<<"1","0","0","0">>, <<"1","2">>} => result.row = result.column
        /\ args[2] \in {<<"0",".","0","0">>, <<"#",".","#","#">>, <<"0","%">>, <<"#","%">>, <<"$","0",".","0","0">>, <<"#",",","#","#","0",".","0","0">>} => result.row = result.column

(***************************************************************************)
(* TIME in ROW mode                                                        *)
(***************************************************************************)

\* None as a value handed to a function
PyNone == [t |-> "none", n |-> 0, s |-> <<>>]

\* float("inf")
Inf == [t |-> "inf", n |-> 0, s |-> <<>>]

\* bool(value)
Truthy(value) ==
    IF value.t = "none" THEN FALSE
    ELSE IF value.t = "num" THEN value.n # 0
    ELSE IF value.t = "str" THEN value.s # <<>>
    ELSE TRUE

\* str(value).strip() is not empty (str() of None, of a number, of nan and
\* of inf is never blank)
StrStripNotEmpty(value) == IF value.t = "str" THEN Strip(value.s) # <<>> ELSE TRUE

\* int(value): the integer, or the exception it raises
PyInt(value) ==
    IF value.t = "num" THEN [raised |-> "", n |-> value.n]
    ELSE IF value.t = "none" THEN [raised |-> "TypeError", n |-> 0]
    ELSE IF value.t = "nan" THEN [raised |-> "ValueError", n |-> 0]
    ELSE IF value.t = "inf" THEN [raised |-> "OverflowError", n |-> 0]
    ELSE LET text == Strip(value.s)
             signed == text # <<>> /\ text[1] \in {"+", "-"}
             digits == IF signed THEN Tail(text) ELSE text
         IN IF digits # <<>> /\ AllDigits(digits)
            THEN [raised |-> "", n |-> IF signed /\ text[1] = "-" THEN 0 - StrInt(digits) ELSE StrInt(digits)]
            ELSE [raised |-> "ValueError", n |-> 0]

\* int(x) if x and str(x).strip() else 0
IntOrZero(value) ==
    IF Truthy(value) /\ StrStripNotEmpty(value) THEN PyInt(value) ELSE [raised |-> "", n |-> 0]

\* The largest number of arguments excel_time takes
TimeArity == 3

\* CSVProcessor.excel_time called with the arguments a: what is raised (""
\* when nothing is) and the value returned, in seconds (decimal hours times
\* 3600)
excel_time(a) ==
    IF Len(a) < 2 \/ Len(a) > TimeArity THEN [raised |-> "TypeError", seconds |-> 0]
    ELSE LET hours == a[1]
             minutes == a[2]
             seconds == IF Len(a) = 3 THEN a[3] ELSE Num(0)
             actual_minutes == IntOrZero(hours)
             actual_seconds == IntOrZero(minutes)
             actual_hours == IntOrZero(seconds)
             raised == IF actual_minutes.raised # "" THEN actual_minutes.raised
                       ELSE IF actual_seconds.raised # "" THEN actual_seconds.raised
                       ELSE actual_hours.raised
         IN IF raised \in {"ValueError", "TypeError"} THEN [raised |-> "", seconds |-> 0]
            ELSE IF raised # "" THEN [raised |-> raised, seconds |-> 0]
            ELSE [raised |-> "", seconds |-> 3600 * actual_hours.n + 60 * actual_minutes.n + actual_seconds.n]

(***************************************************************************)
(* Specification SpecTime: TIME on up to three arguments                   *)
(***************************************************************************)
TimeValues ==
    {Num(0), Num(5), Num(30), Num(-1), Str(<<>>), Str(<<" ">>), Str(<<"7">>), Str(<<" ", "1", "2">>),
     Str(<<"a">>), Str(<<"1", ".", "5">>), PyNone, NaN, Inf}

InitTime ==
    /\ headers = <<>>
    /\ column_mapping = <<>>
    /\ reverse_mapping = <<>>
    /\ data = NoData
    /\ row = <<>>
    /\ input = <<>>
    /\ formula = <<>>
    /\ args \in UNION {[1..k -> TimeValues] : k \in 0..TimeArity}
    /\ num = 0
    /\ result = <<>>
    /\ pc = "time"

\* TIME(...) is called
ExcelTime ==
    /\ pc = "time"
    /\ result' = excel_time(args)
    /\ pc' = "time_done"
    /\ UNCHANGED <<headers, column_mapping, reverse_mapping, data, row, input, formula, args, num>>

NextTime == ExcelTime

SpecTime == InitTime /\ [][NextTime]_vars

(***************************************************************************)
(* C21                                                                     *)
(***************************************************************************)

\* A missing or empty argument: None, the empty text, a blank text
IsMissing(value) == value = PyNone \/ (value.t = "str" /\ Strip(value.s) = <<>>)

\* An integer argument: an int, or the text of one
IsInteger(value) == value.t = "num" \/ (value.t = "str" /\ PyInt(value).raised = "")

\* The integer an argument stands for, 0 for a missing one
ArgumentValue(value) == IF IsMissing(value) THEN 0 ELSE PyInt(value).n

\* The arguments given, the omitted ones missing
TimeArgument(i) == IF i <= Len(args) THEN args[i] ELSE PyNone

\* C21: TIME(a, b) and TIME(a, b, c) never raise; when every argument is an
\* integer or is missing, the call returns c hours plus a minutes plus b
\* seconds, a missing argument counting as 0; when some argument is not
\* convertible to an integer it returns 0.
C21_TimeArgumentRoles ==
    pc = "time_done" /\ Len(args) >= 2 =>
        /\ result.raised = ""
        /\ IF \A i \in 1..TimeArity : IsMissing(TimeArgument(i)) \/ IsInteger(TimeArgument(i))
           THEN result.seconds = 3600 * ArgumentValue(TimeArgument(3)) + 60 * ArgumentValue(TimeArgument(1))
                                    + ArgumentValue(TimeArgument(2))
           ELSE result.seconds = 0

\* What holds: with no infinite argument, TIME behaves as C21 says
TimeRolesOnFiniteArguments ==
    pc = "time_done" /\ Len(args) >= 2 /\ (\A i \in 1..Len(args) : args[i] # Inf) =>
        /\ result.raised = ""
        /\ IF \A i \in 1..TimeArity : IsMissing(TimeArgument(i)) \/ IsInteger(TimeArgument(i))
           THEN result.seconds = 3600 * ArgumentValue(TimeArgument(3)) + 60 * ArgumentValue(TimeArgument(1))
                                    + ArgumentValue(TimeArgument(2))
           ELSE result.seconds = 0

(***************************************************************************)
(* The ROW mode conversion of a formula text                               *)
(***************************************************************************)

\* CSVProcessor._convert_excel_functions_to_python (row is not used)
convert_excel_functions_to_python(f) ==
    convert_comparison_operators(
        convert_or_statements(
            convert_and_statements(
                convert_if_statements(Replace(f, <<"\"">>, <<"'">>)))))

(***************************************************************************)
(* Specification SpecCalls: translations in both modes, one after the      *)
(* other, on an object whose table may be loaded anew in between.  result  *)
(* is the record of the calls made: their inputs and what they returned.   *)
(***************************************************************************)
MaxTranslations == 3

CallFormulas == {<<"=","A","2","+","1">>, <<"A",":","A">>}

\* The formula translated in ROW mode
RowCallFormulas == {<<"A",":","A">>}

\* The tables loaded here: two with the same schema and different rows, one
\* with another schema
CallTables == {t \in Tables : Len(t.columns) = 1}

\* The rows a caller may hand to a ROW mode translation
CallRows == UNION {{t.rows[i] : i \in 1..Len(t.rows)} : t \in CallTables}

InitCalls ==
    /\ data \in CallTables
    /\ headers = data.columns
    /\ column_mapping = create_column_mappings(data.columns)[1]
    /\ reverse_mapping = create_column_mappings(data.columns)[2]
    /\ row = <<>>
    /\ input = <<>>
    /\ formula = <<>>
    /\ args = <<>>
    /\ num = 0
    /\ result = <<>>
    /\ pc = "calls"

\* load_csv between two translations
Reload(t) ==
    /\ pc = "calls"
    /\ t # data
    /\ data' = t
    /\ headers' = t.columns
    /\ column_mapping' = create_column_mappings(t.columns)[1]
    /\ reverse_mapping' = create_column_mappings(t.columns)[2]
    /\ UNCHANGED <<row, input, formula, args, num, result, pc>>

\* FormulaEvaluator.convert_formula_to_js(f, column_mapping)
TranslateColumn(f) ==
    /\ pc = "calls"
    /\ Len(result) < MaxTranslations
    /\ result' = Append(result, [mode |-> "column", formula |-> f, schema |-> column_mapping, row |-> <<>>,
                                 table |-> data, out |-> convert_formula_to_js(f, column_mapping)])
    /\ UNCHANGED <<headers, column_mapping, reverse_mapping, data, row, input, formula, args, num, pc>>

\* The two translation steps of _evaluate_formula_for_row on the row r
TranslateRow(f, r) ==
    /\ pc = "calls"
    /\ Len(result) < MaxTranslations
    /\ result' = Append(result, [mode |-> "row", formula |-> f, schema |-> column_mapping, row |-> r,
                                 table |-> data,
                                 out |-> replace_excel_column_refs_for_row(
                                            convert_excel_functions_to_python(f), column_mapping, r)])
    /\ UNCHANGED <<headers, column_mapping, reverse_mapping, data, row, input, formula, args, num, pc>>

NextCalls ==
    \/ \E t \in CallTables : Reload(t)
    \/ \E f \in CallFormulas : TranslateColumn(f)
    \/ \E f \in RowCallFormulas, r \in CallRows : TranslateRow(f, r)

SpecCalls == InitCalls /\ [][NextCalls]_vars

(***************************************************************************)
(* C22                                                                     *)
(***************************************************************************)

\* Two recorded calls have equal inputs
SameInputs(c, d) ==
    c.mode = d.mode /\ c.formula = d.formula /\ c.schema = d.schema /\ c.row = d.row

PassAfter_AndFirst(pass) ==
    IF pass = "quotes" THEN "and"
    ELSE IF pass = "and" THEN "if"
    ELSE IF pass = "if" THEN "or"
    ELSE IF pass = "or" THEN "comparison"
    ELSE "converted"

\* The order of the statements of _convert_excel_functions_to_python
PassAfter(pass) ==
    IF pass = "quotes" THEN "if"
    ELSE IF pass = "if" THEN "and"
    ELSE IF pass = "and" THEN "or"
    ELSE IF pass = "or" THEN "comparison"
    ELSE "converted"

\* What a pass makes of the text
PassResult(pass, f) ==
    IF pass = "quotes" THEN Replace(f, <<"\"">>, <<"'">>)
    ELSE IF pass = "if" THEN convert_if_statements(f)
    ELSE IF pass = "and" THEN convert_and_statements(f)
    ELSE IF pass = "or" THEN convert_or_statements(f)
    ELSE convert_comparison_operators(f)

Passes == {"quotes", "if", "and", "or", "comparison"}

\* Conditions, and values for the two branches of an IF
PipelineConditions ==
    {<<"a">>, <<"A","N","D","(","a",",","b",")">>, <<"O","R","(","a",",","b",")">>, <<"A","N","D","(","a","=","1",",","b","<",">","2",")">>, <<"O","R","(","a",">","=","1",",","b",")">>, <<"a","=","b">>, <<"A","N","D","(","a",",","O","R","(","b",",","c",")",")">>}

PipelineValues == {<<"x">>, <<"O","R","(","c",",","d",")">>, <<"\"","s","\"">>, <<"I","F","(","c",",","1",",","2",")">>, <<"A","N","D","(","c","=","1",",","d",")">>}

IfOf(c, x, y) == <<"I","F","(">> \o c \o <<",">> \o x \o <<",">> \o y \o <<")">>

PipelineInputs ==
    {IfOf(c, x, y) : c \in PipelineConditions, x \in PipelineValues, y \in PipelineValues}
        \cup PipelineConditions

InitPipeline ==
    /\ headers = <<>>
    /\ column_mapping = <<>>
    /\ reverse_mapping = <<>>
    /\ data = NoData
    /\ row = <<>>
    /\ input \in PipelineInputs
    /\ formula = input
    /\ args = <<>>
    /\ num = 0
    /\ result = <<>>
    /\ pc = "quotes"

\* The next statement of _convert_excel_functions_to_python
ConvertPass ==
    /\ pc \in Passes
    /\ formula' = PassResult(pc, formula)
    /\ args' = Append(args, [pass |-> pc, out |-> PassResult(pc, formula)])
    /\ pc' = PassAfter(pc)
    /\ UNCHANGED <<headers, column_mapping, reverse_mapping, data, row, input, num, result>>

NextPipeline == ConvertPass

SpecPipeline == InitPipeline /\ [][NextPipeline]_vars

(***************************************************************************)
(* C23                                                                     *)
(***************************************************************************)

\* The number of places of s where p stands
TimesIn(s, p) == Cardinality({i \in 1..Len(s) : OccursAt(s, p, i)})

\* The text the recorded pass returned
OutOf(pass) == args[CHOOSE i \in 1..Len(args) : args[i].pass = pass].out

HasRun(pass) == \E i \in 1..Len(args) : args[i].pass = pass

\* The text without the characters of comparison operators
WithoutOperators(s) == Without(s, {i \in 1..Len(s) : s[i] \in {"=", "!", "<", ">"}}, 1)

\* C23: the passes run in the order quotes, IF, AND, OR, comparison; the
\* IF pass leaves every AND( and OR( of its input in Excel form and the
\* following passes leave none; IF(AND(a,b),x,y) is (x if AND(a,b) else y)
\* after the IF pass and (x if (a and b) else y) at the end; and the
\* comparison pass changes nothing but operator characters, so every
\* ' if ' and ' else ' stays as emitted.
C23_FixedPassOrder ==
    /\ \A i \in 1..Len(args) :
          args[i].pass = <<"quotes", "if", "and", "or", "comparison">>[i]
    /\ HasRun("if") =>
          /\ TimesIn(OutOf("if"), <<"A","N","D","(">>) = TimesIn(OutOf("quotes"), <<"A","N","D","(">>)
          /\ TimesIn(OutOf("if"), <<"O","R","(">>) = TimesIn(OutOf("quotes"), <<"O","R","(">>)
          /\ input = <<"I","F","(","A","N","D","(","a",",","b",")",",","x",",","x",")">> => OutOf("if") = <<"(","x"," ","i","f"," ","A","N","D","(","a",",","b",")"," ","e","l","s","e"," ","x",")">>
    /\ HasRun("and") => TimesIn(OutOf("and"), <<"A","N","D","(">>) = 0
    /\ HasRun("or") => TimesIn(OutOf("or"), <<"O","R","(">>) = 0
    /\ pc = "converted" =>
          /\ WithoutOperators(formula) = WithoutOperators(OutOf("or"))
          /\ TimesIn(formula, <<" ","i","f"," ">>) = TimesIn(OutOf("if"), <<" ","i","f"," ">>)
          /\ TimesIn(formula, <<" ","e","l","s","e"," ">>) = TimesIn(OutOf("if"), <<" ","e","l","s","e"," ">>)
          /\ input = <<"I","F","(","A","N","D","(","a",",","b",")",",","x",",","x",")">> => formula = <<"(","x"," ","i","f"," ","(","a"," ","a","n","d"," ","b",")"," ","e","l","s","e"," ","x",")">>

\* An IF whose condition is an AND with comparisons and whose value is an
\* OR has gone through all passes
C23_Witness ==
    /\ pc = "converted"
    /\ input = <<"I","F","(","A","N","D","(","a","=","1",",","b","<",">","2",")",",","O","R","(","c",",","d",")",",","x",")">>
    /\ OutOf("if") = <<"(","O","R","(","c",",","d",")"," ","i","f"," ","A","N","D","(","a","=","1",",","b","<",">","2",")"," ","e","l","s","e"," ","x",")">>
    /\ formula = <<"(","(","c"," ","o","r"," ","d",")"," ","i","f"," ","(","a","=","=","1"," ","a","n","d"," ","b","!","=","2",")"," ","e","l","s","e"," ","x",")">>

(***************************************************************************)
(* Specification SpecShapes: letter ranges over a wide table, resolved in  *)
(* COLUMN mode and in ROW mode                                             *)
(***************************************************************************)
\* Number of columns of the wide table: enough for a two-letter column
WideColumns == 27

WideName(i) == <<"c">> \o NatStr(i)

WideNames == [i \in 1..WideColumns |-> WideName(i)]

\* A table whose row holds i in its i-th column
WideTable ==
    Frame(WideNames,
          << [c \in {WideName(i) : i \in 1..WideColumns} |->
                 Num(CHOOSE i \in 1..WideColumns : WideName(i) = c)] >>)

ShapeTables == {WideTable} \cup {t \in Tables : Len(t.rows) = 2}

\* Row numbers a range may carry at its start and at its end
StartRowNumbers == {<<>>, <<"1">>, <<"2">>}

EndRowNumbers == {<<>>, <<"5">>, <<"2","0">>}

\* The letter ranges L r:L r' of the letters of a schema
LetterRanges(mapping) ==
    {[letter |-> mapping[i].k, start |-> r, text |-> mapping[i].k \o r \o <<":">> \o mapping[i].k \o e] :
        i \in {j \in 1..Len(mapping) : j <= 2 \/ j >= Len(mapping) - 1},
        r \in StartRowNumbers, e \in EndRowNumbers}

InitShapes ==
    /\ data \in ShapeTables
    /\ headers = data.columns
    /\ column_mapping = create_column_mappings(data.columns)[1]
    /\ reverse_mapping = create_column_mappings(data.columns)[2]
    /\ row \in {data.rows[i] : i \in 1..Len(data.rows)}
    /\ args \in LetterRanges(column_mapping)
    /\ input = args.text
    /\ formula = input
    /\ num = 0
    /\ result = <<>>
    /\ pc = "shape"

\* _replace_column_references on the range
ResolveShapeInColumn ==
    /\ pc = "shape"
    /\ formula' = replace_column_references(formula, column_mapping)
    /\ pc' = "shape_column"
    /\ UNCHANGED <<headers, column_mapping, reverse_mapping, data, row, input, args, num, result>>

\* _replace_excel_column_refs_for_row on the range
ResolveShapeInRow ==
    /\ pc = "shape"
    /\ formula' = replace_excel_column_refs_for_row(formula, column_mapping, row)
    /\ pc' = "shape_row"
    /\ UNCHANGED <<headers, column_mapping, reverse_mapping, data, row, input, args, num, result>>

NextShapes == ResolveShapeInColumn \/ ResolveShapeInRow

SpecShapes == InitShapes /\ [][NextShapes]_vars

(***************************************************************************)
(* C24                                                                     *)
(***************************************************************************)

\* getColumnData("name") or, with a start row other than 1,
\* getColumnData("name", r)
ColumnDataCall(name, r) ==
    <<"g","e","t","C","o","l","u","m","n","D","a","t","a","(","\"">> \o name \o <<"\"">>
        \o (IF r = <<>> \/ r = <<"1">> THEN <<>> ELSE <<",", " ">> \o r) \o <<")">>

\* C24: a letter range L r:L r' of a schema letter L, one-letter or
\* two-letter, is left alone by the named-column-range rule and resolved by
\* the letter-range rule against name(L): getColumnData("name(L)"[, r]) in
\* COLUMN mode, the literal of the current row's value of name(L) in ROW
\* mode.
C24_LetterRangeByLetterRule ==
    /\ pc = "shape_column" =>
          formula = ColumnDataCall(DGet(column_mapping, args.letter), args.start)
    /\ pc = "shape_row" =>
          formula = LiteralOf(row[DGet(column_mapping, args.letter)])

(***************************************************************************)
(* Specification SpecLoops: the loops of the three converters, a pass per  *)
(* step; num counts the passes made                                        *)
(***************************************************************************)
\* Most pieces in a free text given to a loop
MaxLoopPieces == 2

\* Most passes of a loop explored
MaxPasses == 6

\* A call that converts in front of one that does not, a keyword in front of
\* a call, and a call whose parenthesis is never closed
LoopExamples(kw) ==
    {kw \o <<"(","c",",","a",",","b",")","+">> \o kw \o <<"(","a",")">>,
     kw \o <<"(","c",",","a",",","b",")","+">> \o kw \o <<"(","a",",","b">>,
     kw \o kw \o <<"(","c",",","a",",","b",")">>,
     kw \o <<"(">> \o kw \o <<"(","c",",","a",",","b",")",",","a",",","b">>,
     kw \o <<"(","a",")","+">> \o kw \o <<"(","c",",","a",",","b",")">>,
     kw \o <<"(","c",",","a",",","b",")","+">> \o kw \o <<"(","a",",","b",",","c",",","d",")","+">> \o kw \o <<"(","c",",","a",",","b",")">>}

LoopInputs(kw) ==
    Concats(Pieces_(kw), MaxLoopPieces) \cup NestedUpTo(kw, MaxCalls) \cup Embedded(kw) \cup LoopExamples(kw)

\* The keyword of the converter whose loop runs
KeywordOf(p) == IF p = "if" THEN <<"I","F">> ELSE IF p = "and" THEN <<"A","N","D">> ELSE <<"O","R">>

\* One pass of its while loop
IterationOf(p, f) ==
    IF p = "if" THEN if_iteration(f) ELSE IF p = "and" THEN and_iteration(f) ELSE or_iteration(f)

InitLoops ==
    /\ headers = <<>>
    /\ column_mapping = <<>>
    /\ reverse_mapping = <<>>
    /\ data = NoData
    /\ row = <<>>
    /\ pc \in {"if", "and", "or"}
    /\ input \in LoopInputs(KeywordOf(pc))
    /\ formula = input
    /\ args = KeywordOf(pc)
    /\ num = 0
    /\ result = <<>>

\* A pass that rewrites the leftmost call and goes round again
LoopRewrite ==
    /\ pc \in {"if", "and", "or"}
    /\ num < MaxPasses
    /\ IterationOf(pc, formula).again
    /\ formula' = IterationOf(pc, formula).formula
    /\ num' = num + 1
    /\ UNCHANGED <<headers, column_mapping, reverse_mapping, data, row, input, args, pc, result>>

\* The pass that leaves the loop; the text is returned
LoopReturn ==
    /\ pc \in {"if", "and", "or"}
    /\ num < MaxPasses
    /\ ~IterationOf(pc, formula).again
    /\ formula' = IterationOf(pc, formula).formula
    /\ num' = num + 1
    /\ pc' = "returned"
    /\ UNCHANGED <<headers, column_mapping, reverse_mapping, data, row, input, args, result>>

NextLoops == LoopRewrite \/ LoopReturn

SpecLoops == InitLoops /\ [][NextLoops]_vars

(***************************************************************************)
(* C25                                                                     *)
(***************************************************************************)

\* Number of places of f where the bare keyword stands
KeywordCount(f, kw) == Cardinality({i \in 1..Len(f) : OccursAt(f, kw, i)})

\* The leftmost call of kw in f cannot be converted: its parenthesis is not
\* closed, or the number of its arguments is not what the converter takes
LeftmostUnparsable(f, kw) ==
    LET call == CallAt(f, kw, Leftmost(f, kw))
    IN \/ call.close = 0
       \/ IF kw = <<"I","F">> THEN Len(call.args) # 3 ELSE Len(call.args) < 2

\* C25: the loop of each of the IF, AND and OR converters terminates on
\* every input: every pass that goes round again leaves strictly fewer
\* keywords in the text, so a text of n keywords is returned after at most
\* n + 1 passes; and the text returned either holds no keyword followed by (
\* or has as its leftmost such occurrence one that cannot be parsed: no
\* matching closing parenthesis, or an argument count other than 3 for IF
\* and below 2 for AND and OR.
C25_LoopsTerminate ==
    /\ [][pc' = pc => KeywordCount(formula', args) < KeywordCount(formula, args)]_vars
    /\ [](num <= KeywordCount(input, args) + 1)
    /\ [](pc # "returned" => num < MaxPasses)
    /\ [](pc = "returned" =>
            Occurrences(formula, args) = {} \/ LeftmostUnparsable(formula, args))

\* A loop has converted a call and has then stopped at one it cannot parse
C25_Witness ==
    /\ pc = "returned"
    /\ num >= 2
    /\ Occurrences(formula, args) # {}

(***************************************************************************)
(* C26                                                                     *)
(***************************************************************************)

\* The leftmost IF( of f is closed and has an argument count other than 3
LeftmostIfMiscounted(f) ==
    /\ Occurrences(f, <<"I","F">>) # {}
    /\ LET call == CallAt(f, <<"I","F">>, Leftmost(f, <<"I","F">>))
       IN call.close # 0 /\ Len(call.args) # 3

\* C26: when the leftmost IF( left in the text has an argument count other
\* than 3, the pass of the IF converter's loop that meets it leaves the loop
\* and returns the text as it stands: what earlier passes converted stays
\* converted, that occurrence and everything behind it stays as it was, and
\* nothing is raised.
C26_MiscountedIfStops ==
    [][(pc = "if" /\ LeftmostIfMiscounted(formula))
          => (pc' = "returned" /\ formula' = formula)]_vars

\* A three-argument IF has been converted, the four-argument IF behind it
\* has stopped the loop, and the three-argument IF behind that one is left
C26_Witness ==
    /\ pc = "returned"
    /\ input = <<"I","F","(","c",",","a",",","b",")","+","I","F","(","a",",","b",",","c",",","d",")","+","I","F","(","c",",","a",",","b",")">>
    /\ formula = <<"(","a"," ","i","f"," ","c"," ","e","l","s","e"," ","b",")","+","I","F","(","a",",","b",",","c",",","d",")","+","I","F","(","c",",","a",",","b",")">>

(***************************************************************************)
(* Specification SpecApply: apply_transformations, statement by statement: *)
(* the formula is evaluated row by row, the series is assigned to the data *)
(* and the column is registered.  formula is the list of transformations,  *)
(* num the position of the one in hand, input its name, result the values  *)
(* computed so far, args what became of the transformations done, row the  *)
(* table as it was loaded.                                                 *)
(***************************************************************************)
\* Most transformations in a list
MaxTransformations == 2

ApplyNames == {N_age, <<"t","o","t","a","l">>, <<"c","o","p","y">>}

\* A transformation; is_text is false for a formula that is not a str
Transformation(name, f, is_text) == [name |-> name, formula |-> f, is_text |-> is_text]

Transformations ==
    {Transformation(n, f, TRUE) : n \in ApplyNames, f \in {<<"=","B","2">>, <<"=","C","2">>, <<"=","7">>, <<"x">>}}
        \cup {Transformation(n, <<>>, FALSE) : n \in ApplyNames}

RECURSIVE ListsUpTo(_, _)
ListsUpTo(S, n) ==
    IF n = 0 THEN {<<>>}
    ELSE LET shorter == ListsUpTo(S, n - 1)
         IN shorter \cup {Append(l, x) : l \in shorter, x \in S}

ApplyTables == {t \in Tables : Len(t.rows) = 2}

\* re.sub(r"\b" + re.escape(col_name) + r"\b", 'row["col_name"]', f) from p on
RECURSIVE SubRowName(_, _, _)
SubRowName(f, p, col_name) ==
    LET hits == {q \in p..Len(f) : /\ OccursAt(f, col_name, q)
                                   /\ WordBoundary(f, q)
                                   /\ WordBoundary(f, q + Len(col_name))}
    IN IF hits = {} THEN Tail_(f, p)
       ELSE LET q == CHOOSE q \in hits : \A h \in hits : q <= h
            IN SubSeq(f, p, q - 1) \o <<"r","o","w","[","\"">> \o col_name \o <<"\"","]">>
                  \o SubRowName(f, q + Len(col_name), col_name)

\* for col_name in self.data.columns: from column i on
RECURSIVE RowNames(_, _, _)
RowNames(f, columns, i) ==
    IF i > Len(columns) THEN f ELSE RowNames(SubRowName(f, 1, columns[i]), columns, i + 1)

\* eval of the texts that arise here: an integer, a string literal, a row
\* lookup; anything else raises, which is caught and gives None (a missing
\* value of the series)
EvalRowText(text, r) ==
    IF text # <<>> /\ AllDigits(text) THEN Num(StrInt(text))
    ELSE IF Len(text) >= 2 /\ text[1] = "\"" /\ text[Len(text)] = "\""
            /\ \A i \in 2..(Len(text) - 1) : text[i] # "\""
    THEN Str(SubSeq(text, 2, Len(text) - 1))
    ELSE IF \E c \in DOMAIN r : text = <<"r","o","w","[","\"">> \o c \o <<"\"","]">>
    THEN r[CHOOSE c \in DOMAIN r : text = <<"r","o","w","[","\"">> \o c \o <<"\"","]">>]
    ELSE NaN

\* _evaluate_formula_for_row
evaluate_formula_for_row(f, mapping, df, r) ==
    EvalRowText(
        RowNames(replace_excel_column_refs_for_row(convert_excel_functions_to_python(f), mapping, r),
                 df.columns, 1),
        r)

InitApply ==
    /\ data \in ApplyTables
    /\ row = data
    /\ headers = data.columns
    /\ column_mapping = create_column_mappings(data.columns)[1]
    /\ reverse_mapping = create_column_mappings(data.columns)[2]
    /\ formula \in ListsUpTo(Transformations, MaxTransformations)
    /\ num = 0
    /\ input = <<>>
    /\ result = <<>>
    /\ args = <<>>
    /\ pc = "next"

\* The for loop takes the next transformation; _evaluate_formula, given a
\* formula that begins with =, starts on the rows
BeginRows ==
    /\ pc = "next"
    /\ num < Len(formula)
    /\ formula[num + 1].is_text
    /\ StartsWith(formula[num + 1].formula, <<"=">>)
    /\ num' = num + 1
    /\ input' = formula[num + 1].name
    /\ result' = <<>>
    /\ pc' = "rows"
    /\ UNCHANGED <<headers, column_mapping, reverse_mapping, data, row, formula, args>>

\* _evaluate_formula, given a text that does not begin with =, returns it
BeginConstant ==
    /\ pc = "next"
    /\ num < Len(formula)
    /\ formula[num + 1].is_text
    /\ ~StartsWith(formula[num + 1].formula, <<"=">>)
    /\ num' = num + 1
    /\ input' = formula[num + 1].name
    /\ result' = [i \in 1..Len(data.rows) |-> Str(formula[num + 1].formula)]
    /\ pc' = "assign"
    /\ UNCHANGED <<headers, column_mapping, reverse_mapping, data, row, formula, args>>

\* _evaluate_formula raises on a formula that is no str; the except clause
\* of the loop prints a warning and the loop goes on
BeginRaises ==
    /\ pc = "next"
    /\ num < Len(formula)
    /\ ~formula[num + 1].is_text
    /\ num' = num + 1
    /\ args' = Append(args, [index |-> num + 1, outcome |-> "raised", letter |-> <<>>])
    /\ UNCHANGED <<headers, column_mapping, reverse_mapping, data, row, input, formula, result, pc>>

\* evaluate_row on the next row of the data
EvaluateRow ==
    /\ pc = "rows"
    /\ Len(result) < Len(data.rows)
    /\ result' = Append(result,
                        evaluate_formula_for_row(Tail_(formula[num].formula, 2), column_mapping,
                                                 data, data.rows[Len(result) + 1]))
    /\ UNCHANGED <<headers, column_mapping, reverse_mapping, data, row, input, formula, args, num, pc>>

\* data.apply has gone through the rows and returns the series
RowsDone ==
    /\ pc = "rows"
    /\ Len(result) = Len(data.rows)
    /\ pc' = "assign"
    /\ UNCHANGED <<headers, column_mapping, reverse_mapping, data, row, input, formula, args, num, result>>

\* self.data[column_name] = ...
AssignColumn ==
    /\ pc = "assign"
    /\ data' = SetColumn(data, input, result)
    /\ pc' = "register"
    /\ UNCHANGED <<headers, column_mapping, reverse_mapping, row, input, formula, args, num, result>>

\* self._add_column_to_mappings(column_name)
RegisterColumn ==
    /\ pc = "register"
    /\ LET m == add_column_to_mappings(headers, column_mapping, reverse_mapping, input)
       IN /\ headers' = m[1]
          /\ column_mapping' = m[2]
          /\ reverse_mapping' = m[3]
          /\ args' = Append(args, [index |-> num, outcome |-> "registered",
                                   letter |-> get_letter_by_column(m[3], input)])
    /\ pc' = "next"
    /\ UNCHANGED <<data, row, input, formula, num, result>>

NextApply ==
    \/ BeginRows
    \/ BeginConstant
    \/ BeginRaises
    \/ EvaluateRow
    \/ RowsDone
    \/ AssignColumn
    \/ RegisterColumn

SpecApply == InitApply /\ [][NextApply]_vars

(***************************************************************************)
(* C27                                                                     *)
(***************************************************************************)

Registered == {i \in 1..Len(args) : args[i].outcome = "registered"}

\* C27: the schema changes only when a derived column is registered, which
\* happens once per transformation, after its values were computed for all
\* rows and assigned, and never for one whose computation raised; the
\* letter registered is the letter of the number of columns the schema had
\* at that moment; the next transformation is taken up only when the
\* previous one is registered or has raised; and a later formula that
\* names an earlier derived column by its letter gets that column's value.
C27_RegisteredOnceAfterComputed ==
    /\ [][<<headers, column_mapping, reverse_mapping>>' # <<headers, column_mapping, reverse_mapping>> =>
            /\ pc = "register"
            /\ Len(result) = Len(data.rows)
            /\ \A i \in 1..Len(data.rows) : data.rows[i][input] = result[i]
            /\ headers' = Append(headers, input)
            /\ get_column_by_letter(column_mapping', number_to_letter(Len(headers))) = input
            /\ get_letter_by_column(reverse_mapping', input) = number_to_letter(Len(headers))
            /\ \A L \in DKeys(column_mapping) :
                  get_column_by_letter(column_mapping', L) = get_column_by_letter(column_mapping, L)]_vars
    /\ [][num' # num => pc = "next" /\ num' = num + 1 /\ Len(args) = num]_vars
    /\ [](/\ Len(headers) = Len(row.columns) + Cardinality(Registered)
          /\ \A i, j \in 1..Len(args) : i < j => args[i].index < args[j].index
          /\ \A i \in 1..Len(args) :
                (args[i].outcome = "registered") = formula[args[i].index].is_text)
    /\ [](\A k \in Registered :
             (pc = "assign" /\ formula[num].formula = <<"=">> \o args[k].letter \o <<"2">>)
                => \A i \in 1..Len(data.rows) :
                      result[i] = data.rows[i][formula[args[k].index].name])

\* Two derived columns are registered, the second computed from the first by
\* its letter C
C27_Witness ==
    /\ pc = "next"
    /\ Len(row.columns) = 2
    /\ Len(args) = 2
    /\ formula = <<Transformation(<<"t","o","t","a","l">>, <<"=","B","2">>, TRUE), Transformation(<<"c","o","p","y">>, <<"=","C","2">>, TRUE)>>
    /\ headers = <<N_region, N_sales, <<"t","o","t","a","l">>, <<"c","o","p","y">>>>
    /\ get_column_by_letter(column_mapping, <<"D">>) = <<"c","o","p","y">>
    /\ \A i \in 1..2 : data.rows[i][<<"c","o","p","y">>] = row.rows[i][N_sales]

(***************************************************************************)
(* Specification SpecLiterals: the ROW mode comparison converter on texts  *)
(* that hold string literals                                               *)
(***************************************************************************)
\* Most pieces in a text with literals
MaxLiteralPieces == 4

LiteralPieces == {<<"'">>, <<"=">>, <<"a">>, <<"<">>, <<">">>, <<"1">>}

InitLiterals ==
    /\ headers = <<>>
    /\ column_mapping = <<>>
    /\ reverse_mapping = <<>>
    /\ data = NoData
    /\ row = <<>>
    /\ input \in Concats(LiteralPieces, MaxLiteralPieces)
    /\ formula = input
    /\ args = <<>>
    /\ num = 0
    /\ result = <<>>
    /\ pc = "cmp"

NextLiterals == ConvertComparisonOperators

SpecLiterals == InitLiterals /\ [][NextLiterals]_vars

(***************************************************************************)
(* C28                                                                     *)
(***************************************************************************)

\* The string literals of f from position p on, in order: each runs from an
\* opening quote to the next quote of the same kind; a quote that is never
\* closed opens no literal
RECURSIVE StringLiterals(_, _)
StringLiterals(f, p) ==
    LET opens == {i \in p..Len(f) : f[i] \in {"'", "\""} /\ \E j \in (i + 1)..Len(f) : f[j] = f[i]}
    IN IF opens = {} THEN <<>>
       ELSE LET i == CHOOSE i \in opens : \A k \in opens : i <= k
                closes == {j \in (i + 1)..Len(f) : f[j] = f[i]}
                j == CHOOSE j \in closes : \A k \in closes : j <= k
            IN <<SubSeq(f, i, j)>> \o StringLiterals(f, j + 1)

\* C28: the ROW mode comparison converter leaves every = that stands
\* between an opening quote and its closing quote as it is: the string
\* literals of the text are the same before and after the conversion.
C28_LiteralsKeepEquals ==
    pc = "row_done" => StringLiterals(formula, 1) = StringLiterals(input, 1)

\* Outside literals a single = becomes ==; a text without = in a literal
\* keeps its literals
LiteralsWithoutEqualsKept ==
    (pc = "row_done" /\ \A k \in 1..Len(StringLiterals(input, 1)) :
                            ~Contains(StringLiterals(input, 1)[k], <<"=">>)
                            /\ ~Contains(StringLiterals(input, 1)[k], <<"<", ">">>))
        => StringLiterals(formula, 1) = StringLiterals(input, 1)

(***************************************************************************)
(* Specification SpecQuotedCalls: the converter loops on three-argument    *)
(* calls one of whose arguments holds a string literal                     *)
(***************************************************************************)
\* What a string literal may hold
LiteralTexts == {<<"(">>, <<")">>, <<"a">>, <<"(", ")">>, <<")", "(">>, <<"(", "(">>, <<>>}

\* Arguments that hold a literal, and plain ones
QuotedArguments == {<<"X","=">> \o <<"'">> \o t \o <<"'">> : t \in LiteralTexts}

PlainArguments == {<<"1">>, <<"b">>}

\* The three arguments of a call: one holds a literal
QuotedCalls ==
    {<<q, x, y>> : q \in QuotedArguments, x, y \in PlainArguments}
        \cup {<<x, q, y>> : q \in QuotedArguments, x, y \in PlainArguments}
        \cup {<<x, y, q>> : q \in QuotedArguments, x, y \in PlainArguments}

InitQuotedCalls ==
    /\ headers = <<>>
    /\ column_mapping = <<>>
    /\ reverse_mapping = <<>>
    /\ data = NoData
    /\ row = <<>>
    /\ pc \in {"if", "and", "or"}
    /\ args \in QuotedCalls
    /\ input = KeywordOf(pc) \o <<"(">> \o Join(args, <<",">>) \o <<")">>
    /\ formula = input
    /\ num = 0
    /\ result = <<>>

NextQuotedCalls == NextLoops

SpecQuotedCalls == InitQuotedCalls /\ [][NextQuotedCalls]_vars

(***************************************************************************)
(* C29                                                                     *)
(***************************************************************************)

\* What a call with the three arguments a converts to
ConvertedCall(kw, a) ==
    IF kw = <<"I","F">> THEN <<"(">> \o a[2] \o <<" ","i","f"," ">> \o a[1] \o <<" ","e","l","s","e"," ">> \o a[3] \o <<")">>
    ELSE IF kw = <<"A","N","D">> THEN <<"(">> \o Join(a, <<" ","a","n","d"," ">>) \o <<")">>
    ELSE <<"(">> \o Join(a, <<" ","o","r"," ">>) \o <<")">>

\* C29: a parenthesis inside a quoted string literal does not count when a
\* converter looks for the closing parenthesis of a call: a three-argument
\* call one of whose arguments holds a literal is converted whatever the
\* literal holds, IF(X='(',1,2) to (1 if X='(' else 2).
C29_QuotedParenthesesSkipped ==
    pc = "returned" => formula = ConvertedCall(SubSeq(input, 1, Find(input, <<"(">>) - 1), args)

\* The calls whose literal holds as many ( as ) , each ( before its ), are
\* converted
BalancedLiteralsConverted ==
    (pc = "returned" /\ \E i \in 1..3 : \E t \in {<<"a">>, <<"(", ")">>, <<>>} :
                            args[i] = <<"X","=">> \o <<"'">> \o t \o <<"'">>)
        => formula = ConvertedCall(SubSeq(input, 1, Find(input, <<"(">>) - 1), args)

(***************************************************************************)
(* Specification SpecNamedCalls: the converter loops on calls of functions *)
(* whose names end in IF, AND or OR, alone and next to a genuine call      *)
(***************************************************************************)
\* Names that end in the keyword
LongerNames(kw) ==
    IF kw = <<"I","F">> THEN {<<"C","O","U","N","T","I","F">>, <<"S","U","M","I","F">>, <<"m","y","_","I","F">>}
    ELSE IF kw = <<"A","N","D">> THEN {<<"R","A","N","D">>, <<"B","R","A","N","D">>, <<"m","y","_","A","N","D">>}
    ELSE {<<"F","L","O","O","R">>, <<"X","O","R">>, <<"m","y","_","O","R">>}

\* What stands between the parentheses of the longer-named call
NamedCallContents == {<<"a",",","b",",","c">>, <<"a",",","b">>, <<"a">>, <<>>}

GenuineArguments == <<<<"c">>, <<"x">>, <<"y">>>>

NamedCallShapes == {"alone", "before", "behind"}

\* The formula of a shape: the longer-named call alone, before a genuine
\* call, or behind one; genuine is the text that stands for the genuine call
NamedCallFormula(shape, named, genuine) ==
    IF shape = "alone" THEN named
    ELSE IF shape = "before" THEN named \o <<"+">> \o genuine
    ELSE genuine \o <<"+">> \o named

InitNamedCalls ==
    /\ headers = <<>>
    /\ column_mapping = <<>>
    /\ reverse_mapping = <<>>
    /\ data = NoData
    /\ row = <<>>
    /\ pc \in {"if", "and", "or"}
    /\ \E name \in LongerNames(KeywordOf(pc)), content \in NamedCallContents, shape \in NamedCallShapes :
          args = [kw |-> KeywordOf(pc), named |-> name \o <<"(">> \o content \o <<")">>, shape |-> shape]
    /\ input = NamedCallFormula(args.shape, args.named,
                                args.kw \o <<"(">> \o Join(GenuineArguments, <<",">>) \o <<")">>)
    /\ formula = input
    /\ num = 0
    /\ result = <<>>

NextNamedCalls == NextLoops

SpecNamedCalls == InitNamedCalls /\ [][NextNamedCalls]_vars

(***************************************************************************)
(* C30                                                                     *)
(***************************************************************************)

\* C30: the converters rewrite only calls of IF, AND and OR: a call of a
\* function whose name ends in those letters (COUNTIF, SUMIF, RAND, FLOOR,
\* XOR, a name of one's own) is left as it is, and a genuine call before
\* it or behind it is converted all the same.
C30_OnlyGenuineCallsConverted ==
    pc = "returned" =>
        formula = NamedCallFormula(args.shape, args.named, ConvertedCall(args.kw, GenuineArguments))

====
